---- MODULE Spec2Model ----
(***************************************************************************)
(* ZVector (src/src/zvector.c): a dynamic array of element pointers that   *)
(* grows on the left and on the right, with a priority based lock.         *)
(*                                                                         *)
(* One caller applies the public operations to a vector v and, for the     *)
(* operations that take two vectors, to a second vector v2. Every public   *)
(* operation is one atomic action: lock wrapper, body, capacity changes.   *)
(* Spec offers every operation; the smaller specifications (SeqSpec,       *)
(* QueueSpec, PutSpec, RotateSpec, SortSpec, SearchSpec, MergeSpec,        *)
(* CopySpec, MemSpec, IndexSpec, BulkSpec, CircularSpec, ClearSpec,        *)
(* ThreadsSpec, OrderedSpec, ApplySpec, WipeSpec, SwapSpec, GrowSpec) each  *)
(* offer the operations one group of properties is about. In MemSpec the   *)
(* allocator may refuse memory; elsewhere it never does. In ThreadsSpec,   *)
(* LockSpec, LockFairSpec and ToggleSpec several threads call operations,  *)
(* and a call is split at the points where the lock is asked for.          *)
(***************************************************************************)
EXTENDS Integers, Sequences, FiniteSets, TLC

VARIABLES
    v,             \* struct p_vector of the first vector
    v2,            \* the caller's second vector: its pointer and its struct
    hp,            \* the C heap: element blocks, and the faults met so far
    ret,           \* what the last public operation was given and returned
    lock_enabled,  \* static volatile bool lock_enabled
    lock_type,     \* v->lock_type
    mutex,         \* v->lock: owner thread (0 = free) and recursion count
    th,            \* other threads' positions in a lock wrapper (none: one caller)
    inbody         \* threads executing the body of an operation (none between calls)

vecvars == <<v, v2, hp, ret>>
lockvars == <<lock_enabled, lock_type, mutex>>
thvars == <<th, inbody>>
vars == <<v, v2, hp, ret, lock_enabled, lock_type, mutex, th, inbody>>

----------------------------------------------------------------------------
\* Bounds of the model.
MaxSize == 3        \* insertions are offered while size < MaxSize
MaxCap == 10        \* operations are offered while cap_left + cap_right <= MaxCap
MaxVal == 2         \* element values are 1..MaxVal
MaxInitCap == 4     \* vect_create is called with init_capacity in 1..MaxInitCap
BigSize == 68       \* the size of the large vector that is searched
MaxPops == 4        \* the large vector is shortened by at most this many elements
MaxDepth == 8       \* nested calls of p_vect_qsort followed before giving up
MaxLocks == 3       \* calls that may leave the mutex held are offered while its count is below this
MaxThreads == 2     \* threads that call the operations concurrently
MaxOrdered == 7     \* elements inserted in order into the small by-reference vector
MaxRoom == 2        \* elements inserted in order into the large vector

Values == 1..MaxVal
\* Addresses of element blocks: one more than a full vector needs.
Handles == 1..(MaxSize + 1)

\* zvect_index is an unsigned integer type: arithmetic wraps. The model keeps
\* the wrap-around at 16 bits, the widest the model's indexes ever need.
IdxMod == 2^16
USub(a, b) == (a - b + IdxMod) % IdxMod
UAdd(a, b) == (a + b) % IdxMod
Max(a, b) == IF a > b THEN a ELSE b

\* Slot contents: a pointer to an element block (a handle), NULL, or an
\* indeterminate pointer (uninitialised memory, or memory outside the buffer).
NULL == 0
Indet == -1

\* Values of zvect_retval, by name; OK is 0, success.
OK == "OK"
ZVERR_VECTUNDEF == "ZVERR_VECTUNDEF"
ZVERR_IDXOUTOFBOUND == "ZVERR_IDXOUTOFBOUND"
ZVERR_OUTOFMEM == "ZVERR_OUTOFMEM"
ZVERR_VECTCORRUPTED == "ZVERR_VECTCORRUPTED"
ZVERR_RACECOND == "ZVERR_RACECOND"
ZVERR_VECTTOOSMALL == "ZVERR_VECTTOOSMALL"
ZVERR_VECTDATASIZE == "ZVERR_VECTDATASIZE"
ZVERR_VECTEMPTY == "ZVERR_VECTEMPTY"

\* Vector properties (bits of v->flags), by name.
ZV_BYREF == "ZV_BYREF"
ZV_SEC_WIPE == "ZV_SEC_WIPE"
ZV_CIRCULAR == "ZV_CIRCULAR"

\* v->status: ZVS_NONE (0), or the bit that tells that a custom secure wipe
\* function has been set.
ZVS_CUST_WIPE_ON == 1

----------------------------------------------------------------------------
\* The heap. mem[h] is the content of block h, allocd the blocks currently
\* allocated, fault the kinds of invalid memory access met so far, and nomem
\* the requests the allocator refuses for want of memory: "slots" for the
\* slot buffers (malloc and realloc of v->data), "item" for the element blocks.

\* malloc returns a block that is not allocated; the lowest such address.
MallocAddr(h) == CHOOSE a \in Handles \ h.allocd :
                     \A b \in Handles \ h.allocd : a <= b
CanMalloc(h) == Handles \ h.allocd # {}
Malloc(h) == [h EXCEPT !.allocd = @ \cup {MallocAddr(h)},
                       !.mem[MallocAddr(h)] = 0]

\* The heap after free(p): free(NULL) does nothing; freeing an indeterminate
\* pointer or a block that is not allocated is undefined and is recorded as a
\* fault.
HeapFree(h, p) ==
    IF p = NULL THEN h
    ELSE IF p \notin h.allocd THEN [h EXCEPT !.fault = @ \cup {"bad_free"}]
    ELSE [h EXCEPT !.allocd = @ \ {p}, !.mem[p] = 0]

\* memcpy(p, &value, data_size): store value in block p.
Store(h, p, val) ==
    IF p \in h.allocd THEN [h EXCEPT !.mem[p] = val]
    ELSE [h EXCEPT !.fault = @ \cup {"wild_write"}]

\* *p as the caller reads it: Indet when p does not point to a live block.
Load(h, p) == IF p \in h.allocd THEN h.mem[p] ELSE Indet

Fault(h, cond, kind) == IF cond THEN [h EXCEPT !.fault = @ \cup {kind}] ELSE h

----------------------------------------------------------------------------
\* The slot buffer v->data: a function on 0 .. length-1. A slot read outside
\* the buffer yields an indeterminate pointer; an access outside it is a fault.
BufLen(d) == Cardinality(DOMAIN d)
Rd(d, i) == IF i \in DOMAIN d THEN d[i] ELSE Indet
Wr(d, i, x) == IF i \in DOMAIN d THEN [d EXCEPT ![i] = x] ELSE d

\* malloc(sizeof(void *) * n): n uninitialised slots.
NewBuf(n) == [k \in 0..(n - 1) |-> Indet]
\* calloc(n, sizeof(void *)): n NULL slots.
ZeroBuf(n) == [k \in 0..(n - 1) |-> NULL]
\* realloc(d, sizeof(void *) * n): the first min(old, n) slots are kept.
Realloc(d, n) == [k \in 0..(n - 1) |-> IF k \in DOMAIN d THEN d[k] ELSE Indet]
\* memcpy/memmove of n slots from src[so ..] to dst[do ..]; overlap-safe.
MemMove(dst, do, src, so, n) ==
    [k \in DOMAIN dst |-> IF k >= do /\ k < do + n THEN Rd(src, so + (k - do))
                          ELSE dst[k]]
\* Whether a run of n slots starting at o leaves the buffer d.
Outside(d, o, n) == n > 0 /\ (o < 0 \/ o + n > BufLen(d))

\* The slots after free(p): once a block is freed, every pointer to it is
\* indeterminate (C11 6.2.4p2).
Dangle(d, p) ==
    [k \in DOMAIN d |-> IF p # NULL /\ d[k] = p THEN Indet ELSE d[k]]

----------------------------------------------------------------------------
\* A machine state m is [v, o, hp, rval, item, failed]: the vector, the other
\* vector of the caller, the heap, the return value and the *item of the call
\* in progress, and whether an allocation of the call has returned NULL.

\* A request for memory of the given kind that the allocator refuses.
Refused(m, kind) == kind \in m.hp.nomem
NoMemory(m) == [m EXCEPT !.rval = ZVERR_OUTOFMEM, !.failed = TRUE]

\* free(p)
free(m, p) == [m EXCEPT !.hp = HeapFree(@, p), !.v.data = Dangle(@, p),
                         !.o.data = Dangle(@, p)]

p_vect_capacity(x) == UAdd(x.cap_left, x.cap_right)
p_vect_size(x) == USub(x.end, x.begin)

\* A wipe of the data_size bytes at item by the function named how: the
\* block is zeroed, and h.wiped records the wipes of the call in progress.
Wipe(h, item, how) ==
    IF item \in h.allocd
    THEN [h EXCEPT !.mem[item] = 0, !.wiped = @ \cup {<<how, item>>}]
    ELSE [h EXCEPT !.fault = @ \cup {"wild_write"}]

\* memset(item, 0, data_size), or the custom wipe function when
\* vect_set_wipefunct has installed one.
p_item_safewipe(x, h, item) ==
    IF item = NULL THEN h
    ELSE IF x.status # ZVS_CUST_WIPE_ON THEN Wipe(h, item, "memset")
    ELSE Wipe(h, item, "SfWpFunc")

\* One iteration of the loop of p_free_items, at index j.
FreeItem(m, j) ==
    LET p == Rd(m.v.data, m.v.begin + j)
        h1 == Fault(m.hp, Outside(m.v.data, m.v.begin + j, 1), "oob_read")
        h2 == IF ZV_SEC_WIPE \in m.v.flags THEN p_item_safewipe(m.v, h1, p) ELSE h1
    IN  IF p = NULL THEN [m EXCEPT !.hp = h1]
        ELSE IF ZV_BYREF \in m.v.flags THEN [m EXCEPT !.hp = h2]
        ELSE [free([m EXCEPT !.hp = h2], p) EXCEPT
                       !.v.data = Wr(@, m.v.begin + j, NULL)]

RECURSIVE FreeLoop(_, _, _)
FreeLoop(m, j, first) ==
    IF j < first THEN m
    ELSE IF j = first THEN FreeItem(m, j)
    ELSE FreeLoop(FreeItem(m, j), j - 1, first)

p_free_items(m, first, offset) ==
    IF p_vect_size(m.v) = 0 THEN m
    ELSE FreeLoop(m, UAdd(first, offset), first)

p_vect_increase_capacity(m, direction) ==
    LET x == m.v
        size == USub(x.end, x.begin)
    IN  IF Refused(m, "slots") THEN NoMemory(m)
        ELSE IF direction = 0
        THEN LET new_capacity == x.cap_left * 2
                 nb == x.cap_left
                 ne == nb + size
                 nd == NewBuf(new_capacity + x.cap_right)
             IN  [m EXCEPT !.v.data = MemMove(nd, nb, x.data, x.begin, size),
                           !.v.cap_left = new_capacity,
                           !.v.end = ne,
                           !.v.begin = nb,
                           !.hp = Fault(Fault(@, Outside(nd, nb, size), "oob_write"),
                                        Outside(x.data, x.begin, size), "oob_read")]
        ELSE LET new_capacity == x.cap_right * 2
             IN  [m EXCEPT !.v.data = Realloc(@, x.cap_left + new_capacity),
                           !.v.cap_right = new_capacity]

\* A faulty variant of p_vect_decrease_capacity: the capacity is never given
\* back.
DecreaseNever(m, direction) == m

\* A faulty variant of the new capacity of a side: half of it, with no floor
\* at half of the initial capacity.
HalvedCapacity(x, side) == Max(p_vect_size(x) \div 2, side \div 2)

\* The capacity p_vect_decrease_capacity gives the side it halves.
DecreasedCapacity(x, side) ==
    Max(p_vect_size(x) \div 2, Max(side \div 2, x.init_capacity \div 2))

p_vect_decrease_capacity(m, direction) ==
    LET x == m.v
        size == USub(x.end, x.begin)
    IN  IF p_vect_capacity(x) <= x.init_capacity THEN m
        ELSE IF Refused(m, "slots") THEN NoMemory(m)
        ELSE IF direction = 0
        THEN LET new_capacity == DecreasedCapacity(x, x.cap_left)
                 nb == new_capacity \div 2
                 ne == nb + size
                 nd == NewBuf(new_capacity + x.cap_right)
             IN  [m EXCEPT !.v.data = MemMove(nd, nb, x.data, x.begin, size),
                           !.v.cap_left = new_capacity,
                           !.v.end = ne,
                           !.v.begin = nb,
                           !.hp = Fault(Fault(@, Outside(nd, nb, size), "oob_write"),
                                        Outside(x.data, x.begin, size), "oob_read")]
        ELSE LET new_capacity == DecreasedCapacity(x, x.cap_right)
             IN  [m EXCEPT !.v.data = Realloc(@, x.cap_left + new_capacity),
                           !.v.cap_right = new_capacity]

p_vect_shrink(m0) ==
    LET m == IF m0.v.init_capacity < 2 THEN [m0 EXCEPT !.v.init_capacity = 2] ELSE m0
        x == m.v
        size == p_vect_size(x)
    IN  IF p_vect_capacity(x) = x.init_capacity \/ p_vect_capacity(x) <= size THEN m
        ELSE IF Refused(m, "slots") THEN NoMemory(m)
        ELSE LET new_capacity == IF size < x.init_capacity THEN x.init_capacity
                                 ELSE size + 2
                 nb == new_capacity \div 2
                 ne == nb + size
                 nd == NewBuf(new_capacity)
             IN  [m EXCEPT !.v.data = MemMove(nd, nb, x.data, x.begin, size),
                           !.v.end = ne,
                           !.v.begin = nb,
                           !.v.cap_left = new_capacity \div 2,
                           !.v.cap_right = new_capacity \div 2,
                           !.hp = Fault(Fault(@, Outside(nd, nb, size), "oob_write"),
                                        Outside(x.data, x.begin, size), "oob_read")]

----------------------------------------------------------------------------
\* Storage primitives.

\* v->data[i] = x
SetSlot(m, i, x) ==
    [m EXCEPT !.v.data = Wr(@, i, x),
              !.hp = Fault(@, i \notin DOMAIN m.v.data, "oob_write")]

\* v->data[i] = malloc(v->data_size)
AllocSlot(m, i) ==
    IF Refused(m, "item") THEN NoMemory(SetSlot(m, i, NULL))
    ELSE SetSlot([m EXCEPT !.hp = Malloc(@)], i, MallocAddr(m.hp))

\* memmove(v->data + to, v->data + from, sizeof(void *) * n)
ShiftSlots(m, to, from, n) ==
    [m EXCEPT !.v.data = MemMove(@, to, m.v.data, from, n),
              !.hp = Fault(Fault(@, Outside(m.v.data, to, n), "oob_write"),
                           Outside(m.v.data, from, n), "oob_read")]

\* memcpy(v->data[i], value, v->data_size)
CopyIn(m, i, value) ==
    LET p == Rd(m.v.data, i)
    IN  IF i \notin DOMAIN m.v.data THEN [m EXCEPT !.hp = Fault(@, TRUE, "oob_read")]
        ELSE IF p = NULL THEN [m EXCEPT !.hp = Fault(@, TRUE, "null_deref")]
        ELSE [m EXCEPT !.hp = Store(@, p, value)]

p_vect_put_at(m, value, i) ==
    LET x == m.v
        size == p_vect_size(x)
        idx == IF ZV_CIRCULAR \in x.flags /\ i >= size THEN i % x.init_capacity ELSE i
    IN  IF ZV_CIRCULAR \notin x.flags /\ i >= size
        THEN [m EXCEPT !.rval = ZVERR_IDXOUTOFBOUND]
        ELSE IF ZV_BYREF \in x.flags
        THEN LET temp == Rd(x.data, x.begin + idx)
                 m1 == SetSlot(m, x.begin + idx, value)
             IN  [m1 EXCEPT !.rval = OK,
                            !.hp = IF ZV_SEC_WIPE \in x.flags
                                   THEN IF temp = NULL
                                        THEN Fault(@, TRUE, "null_deref")
                                        ELSE Wipe(@, temp, "memset")
                                   ELSE @]
        ELSE [CopyIn(m, x.begin + idx, value) EXCEPT !.rval = OK]

\* The end of p_vect_add_at, the slot base + idx being ready: add the new
\* value in (at the index i), then increment the vector size.
AddAtStore(m4, value, idx, base) ==
    LET m5 == IF ZV_BYREF \in m4.v.flags THEN SetSlot(m4, base + idx, value)
              ELSE CopyIn(m4, base + idx, value)
    IN  [m5 EXCEPT !.v.begin = IF idx = 0 THEN base ELSE @,
                   !.v.end = IF idx = 0 THEN @ ELSE UAdd(@, 1),
                   !.rval = OK]

\* "Shift" right the array of one position to make space for the new item,
\* and allocate the item of the freed slot.
AddAtShift(m2, value, idx, vsize, base) ==
    LET byref == ZV_BYREF \in m2.v.flags
        array_changed == idx < vsize /\ idx # 0
        m3 == IF array_changed
              THEN ShiftSlots(m2, base + idx + 1, base + idx, vsize - idx)
              ELSE m2
    IN  IF array_changed /\ ~byref
        THEN \* if (v->data[base + idx] == NULL) return ZVERR_OUTOFMEM;
             IF Refused(m2, "item") THEN AllocSlot(m3, base + idx)
             ELSE AddAtStore(AllocSlot(m3, base + idx), value, idx, base)
        ELSE AddAtStore(m3, value, idx, base)

\* Allocate memory for the new item, at the left or at the right end.
AddAtPrepare(m1, value, idx, vsize) ==
    LET byref == ZV_BYREF \in m1.v.flags
        base == IF idx = 0 THEN USub(m1.v.begin, 1) ELSE m1.v.begin
        slot == IF idx = 0 THEN base ELSE base + vsize
    IN  IF ~byref /\ (idx = 0 \/ idx = vsize)
        THEN \* if (v->data[...] == NULL) return ZVERR_OUTOFMEM;
             IF Refused(m1, "item") THEN AllocSlot(m1, slot)
             ELSE AddAtShift(AllocSlot(m1, slot), value, idx, vsize, base)
        ELSE AddAtShift(m1, value, idx, vsize, base)

\* A faulty variant of the expansion check: the side of the insertion is
\* expanded whether or not it is full.
AddAtEager(m0, value, idx, vsize) ==
    AddAtPrepare(p_vect_increase_capacity(m0, IF idx = 0 THEN 0 ELSE 1), value, idx, vsize)

\* The part of p_vect_add_at after the bounds check, for index idx.
AddAtIndex(m0, value, idx, vsize) ==
    \* Check if we need to expand the vector:
    AddAtPrepare(IF idx = 0
                 THEN IF m0.v.begin = 0 \/ m0.v.cap_left = 1
                      THEN p_vect_increase_capacity(m0, 0) ELSE m0
                 ELSE IF m0.v.end >= m0.v.cap_right
                      THEN p_vect_increase_capacity(m0, 1) ELSE m0,
                 value, idx, vsize)

\* A faulty variant of p_vect_add_at: the strict mode is ignored, an index
\* past the end always appends.
AddAtLenient(m, value, i, action) ==
    LET vsize == p_vect_size(m.v)
    IN  IF ZV_CIRCULAR \in m.v.flags THEN p_vect_put_at(m, value, i)
        ELSE AddAtIndex(m, value, IF i > vsize THEN USub(vsize, 1) ELSE i, vsize)

p_vect_add_at(m, value, i, action) ==
    LET vsize == p_vect_size(m.v)
    IN  IF ZV_CIRCULAR \in m.v.flags THEN p_vect_put_at(m, value, i)
        ELSE IF i > vsize /\ action = 0 THEN [m EXCEPT !.rval = ZVERR_IDXOUTOFBOUND]
        ELSE AddAtIndex(m, value, IF i > vsize THEN USub(vsize, 1) ELSE i, vsize)

\* The part of p_vect_remove_at after the checks, for index idx.
RemoveAtIndex(m0, idx, vsize) ==
    LET byref == ZV_BYREF \in m0.v.flags
        base == m0.v.begin
        p == Rd(m0.v.data, base + idx)
        \* Get the value we are about to remove:
        m1 == IF byref
              THEN [m0 EXCEPT !.item = p,
                              !.hp = Fault(@, Outside(m0.v.data, base + idx, 1), "oob_read")]
              ELSE [m0 EXCEPT !.item = Load(m0.hp, p),
                              !.failed = Refused(m0, "item"),
                              !.hp = LET h == Fault(Fault(@, p \notin m0.hp.allocd, "bad_read"),
                                                    Refused(m0, "item"), "null_deref")
                                     IN  IF ZV_SEC_WIPE \in m0.v.flags
                                         THEN p_item_safewipe(m0.v, h, p) ELSE h]
        \* "shift" left the array of one position:
        array_changed == IF idx # 0 THEN idx < USub(vsize, 1) /\ vsize > 0
                         ELSE base < m1.v.end
        m2 == IF idx # 0
              THEN IF array_changed
                   THEN ShiftSlots(free(m1, p), base + idx, base + idx + 1, vsize - idx)
                   ELSE m1
              ELSE IF array_changed THEN free(m1, p) ELSE m1
        \* Reduce vector size:
        m3 == IF ~byref /\ ~array_changed THEN p_free_items(m2, USub(vsize, 1), 0)
              ELSE m2
        m4 == [m3 EXCEPT !.v.end = IF idx # 0
                                   THEN IF m3.v.end > m3.v.begin THEN @ - 1
                                        ELSE m3.v.begin
                                   ELSE @,
                         !.v.begin = IF idx = 0
                                     THEN IF m3.v.begin < m3.v.end THEN @ + 1
                                          ELSE m3.v.end
                                     ELSE @]
        \* Check if we need to shrink vector's capacity:
        m5 == IF (4 * vsize) % IdxMod < p_vect_capacity(m4.v)
              THEN p_vect_decrease_capacity(m4, idx) ELSE m4
    IN  [(IF ZV_CIRCULAR \in m0.v.flags THEN m3 ELSE m5) EXCEPT !.rval = OK]

p_vect_remove_at(m, i, action) ==
    LET vsize == p_vect_size(m.v)
        circular == ZV_CIRCULAR \in m.v.flags
    IN  IF vsize = 0 THEN [m EXCEPT !.rval = OK]
        ELSE IF ~circular /\ i >= vsize /\ action = 0
        THEN [m EXCEPT !.rval = ZVERR_IDXOUTOFBOUND]
        ELSE IF m.v.begin > m.v.end THEN [m EXCEPT !.rval = ZVERR_VECTCORRUPTED]
        ELSE RemoveAtIndex(m, IF i >= vsize
                              THEN IF circular THEN i % vsize ELSE USub(vsize, 1)
                              ELSE i, vsize)

p_vect_delete_at(m0, start, offset) ==
    LET vsize == p_vect_size(m0.v)
        tot_items == UAdd(start, offset)
        array_changed == tot_items < USub(vsize, 1)
        \* "shift" left the data of one position:
        m1 == IF array_changed
              THEN LET f == p_free_items(m0, start, offset)
                   IN  IF tot_items # 0
                       THEN ShiftSlots(f, f.v.begin + start, f.v.begin + tot_items + 1,
                                       USub(vsize, start))
                       ELSE f
              ELSE m0
        \* Reduce vector size:
        m2 == IF ZV_BYREF \notin m0.v.flags /\ ~array_changed
              THEN p_free_items(m1, USub(USub(vsize, 1), offset), offset)
              ELSE m1
        m3 == [m2 EXCEPT !.v.end = IF start # 0
                                   THEN IF USub(m2.v.end, offset + 1) > m2.v.begin
                                        THEN USub(@, offset + 1)
                                        ELSE m2.v.begin
                                   ELSE @,
                         !.v.begin = IF start = 0
                                     THEN IF UAdd(m2.v.begin, offset + 1) < m2.v.end
                                          THEN UAdd(@, offset + 1)
                                          ELSE m2.v.end
                                     ELSE @]
        \* Check if we need to shrink the vector:
        m4 == IF (4 * vsize) % IdxMod < p_vect_capacity(m3.v)
              THEN p_vect_decrease_capacity(m3, start) ELSE m3
    IN  IF tot_items >= vsize THEN [m0 EXCEPT !.rval = ZVERR_IDXOUTOFBOUND]
        ELSE IF vsize = 0 THEN [m0 EXCEPT !.rval = ZVERR_VECTEMPTY]
        ELSE [m4 EXCEPT !.rval = OK]

\* A faulty variant of vect_clear: the vector is emptied where it stands, begin
\* and end are not brought back to 1.
ClearInPlace(m0) ==
    LET m1 == IF p_vect_size(m0.v) # 0
              THEN p_free_items(m0, 0, USub(p_vect_size(m0.v), 1)) ELSE m0
    IN  [m1 EXCEPT !.v.end = m0.v.begin,
                   !.rval = OK]

\* The body of vect_clear.
ClearBody(m0) ==
    LET m1 == IF p_vect_size(m0.v) # 0
              THEN p_free_items(m0, 0, USub(p_vect_size(m0.v), 1)) ELSE m0
    IN  [m1 EXCEPT !.v.begin = 1,
                   !.v.end = 1,
                   !.rval = OK]

\* memcpy(dst + do, src + so, sizeof(void *) * n) between two slot buffers:
\* the destination buffer and the faults of the heap afterwards.
CopySlots(dst, do, src, so, n) == MemMove(dst, do, src, so, n)
CopyFaults(h, dst, do, src, so, n) ==
    Fault(Fault(h, Outside(dst, do, n), "oob_write"), Outside(src, so, n), "oob_read")

\* The body of vect_rotate_left(v, i).
RotateLeftBody(m, i) ==
    LET x == m.v
        size == p_vect_size(x)
    IN  IF i = 0 \/ i = size THEN [m EXCEPT !.rval = OK]
        ELSE IF i > size THEN [m EXCEPT !.rval = ZVERR_IDXOUTOFBOUND]
        ELSE IF i = 1
        THEN \* Rotate left the vector of 1 position:
             LET temp == Rd(x.data, 0)
                 m1 == ShiftSlots(m, 0, 1, size - 1)
             IN  [SetSlot(m1, size - 1, temp) EXCEPT !.rval = OK]
        ELSE IF Refused(m, "slots") THEN [m EXCEPT !.rval = ZVERR_OUTOFMEM]
        ELSE \* Rotate left the vector of "i" positions:
             LET nd0 == NewBuf(p_vect_capacity(x))
                 nd == CopySlots(nd0, x.begin, x.data, x.begin, i)
                 h1 == CopyFaults(m.hp, nd0, x.begin, x.data, x.begin, i)
                 m1 == ShiftSlots([m EXCEPT !.hp = h1], x.begin, x.begin + i, size - i)
                 d2 == CopySlots(m1.v.data, x.begin + (size - i), nd, x.begin, i)
                 h2 == CopyFaults(m1.hp, m1.v.data, x.begin + (size - i), nd, x.begin, i)
             IN  [m1 EXCEPT !.v.data = d2, !.hp = h2, !.rval = OK]

\* The body of vect_rotate_right(v, i).
RotateRightBody(m, i) ==
    LET x == m.v
        size == p_vect_size(x)
    IN  IF i = 0 \/ i = size THEN [m EXCEPT !.rval = OK]
        ELSE IF i > size THEN [m EXCEPT !.rval = ZVERR_IDXOUTOFBOUND]
        ELSE IF i = 1
        THEN \* Rotate right the vector of 1 position:
             LET temp == Rd(x.data, x.begin + size - 1)
                 m1 == ShiftSlots(m, x.begin + 1, x.begin, size - 1)
             IN  [SetSlot(m1, x.begin, temp) EXCEPT !.rval = OK]
        ELSE IF Refused(m, "slots") THEN [m EXCEPT !.rval = ZVERR_OUTOFMEM]
        ELSE \* Rotate right the vector of "i" positions:
             LET nd0 == NewBuf(p_vect_capacity(x))
                 nd == CopySlots(nd0, x.begin, x.data, x.begin + (size - i), i)
                 h1 == CopyFaults(m.hp, nd0, x.begin, x.data, x.begin + (size - i), i)
                 m1 == ShiftSlots([m EXCEPT !.hp = h1], x.begin + i, x.begin, size - i)
                 d2 == CopySlots(m1.v.data, x.begin, nd, x.begin, i)
                 h2 == CopyFaults(m1.hp, m1.v.data, x.begin, nd, x.begin, i)
             IN  [m1 EXCEPT !.v.data = d2, !.hp = h2, !.rval = OK]

\* The body of vect_swap(v, i1, i2).
SwapBody(m, i1, i2) ==
    LET x == m.v
        a1 == UAdd(x.begin, i1)
        a2 == UAdd(x.begin, i2)
    IN  IF i1 > p_vect_size(x) \/ i2 > p_vect_size(x)
        THEN [m EXCEPT !.rval = ZVERR_IDXOUTOFBOUND]
        ELSE IF i1 = i2 THEN m
        ELSE LET temp == Rd(x.data, a2)
                 m1 == SetSlot(m, a2, Rd(x.data, a1))
                 m2 == SetSlot(m1, a1, temp)
             IN  [m2 EXCEPT !.hp = Fault(@, {a1, a2} \ DOMAIN x.data # {}, "oob_read")]

\* The caller's comparator on two element pointers: the order of the values.
compare_func(h, a, b) ==
    IF h.mem[a] < h.mem[b] THEN -1 ELSE IF h.mem[a] > h.mem[b] THEN 1 ELSE 0

\* The sort in progress: st is [m, i, j, p, q, calls], the machine state, the
\* locals of p_vect_qsort, and whether vect_swap has been called.
Stopped(m) == m.hp.fault # {} \/ m.rval # OK
SlotAt(st, k) == Rd(st.m.v.data, UAdd(st.m.v.begin, k))
\* (*compare_func)(v->data[v->begin + k], ref_val) can be evaluated.
Comparable(st, k, ref_val) ==
    /\ UAdd(st.m.v.begin, k) \in DOMAIN st.m.v.data
    /\ SlotAt(st, k) \in st.m.hp.allocd
    /\ ref_val \in st.m.hp.allocd
\* The faults of evaluating it when it cannot.
Incomparable(st, k, ref_val) ==
    [st EXCEPT !.m.hp =
        Fault(Fault(@, UAdd(st.m.v.begin, k) \notin DOMAIN st.m.v.data, "oob_read"),
              UAdd(st.m.v.begin, k) \in DOMAIN st.m.v.data, "wild_read")]
Swapped(st, i1, i2) == [st EXCEPT !.m = SwapBody(@, i1, i2), !.calls = TRUE]

\* while ((*compare_func)(v->data[v->begin + i], ref_val) < 0) i++;
RECURSIVE ScanUp(_, _)
ScanUp(st, ref_val) ==
    IF ~Comparable(st, st.i, ref_val) THEN Incomparable(st, st.i, ref_val)
    ELSE IF compare_func(st.m.hp, SlotAt(st, st.i), ref_val) < 0
    THEN ScanUp([st EXCEPT !.i = UAdd(@, 1)], ref_val)
    ELSE st

\* while ((*compare_func)(ref_val, v->data[(--j) + v->begin]) < 0)
\*     if (j == l) break;
RECURSIVE ScanDown(_, _, _)
ScanDown(st, ref_val, l) ==
    LET s1 == [st EXCEPT !.j = USub(@, 1)]
    IN  IF ~Comparable(s1, s1.j, ref_val) THEN Incomparable(s1, s1.j, ref_val)
        ELSE IF compare_func(s1.m.hp, ref_val, SlotAt(s1, s1.j)) < 0 /\ s1.j # l
        THEN ScanDown(s1, ref_val, l)
        ELSE s1

\* The for (;;) loop of p_vect_qsort, one operator per statement; each is
\* given the state its predecessor leaves.
RECURSIVE Partition(_, _, _, _)
\* if ((*compare_func)(ref_val, v->data[v->begin + j]) == 0) { q--; vect_swap(v, q, j); }
PartitionRight(st, ref_val, l, fuel) ==
    IF Stopped(st.m) THEN st
    ELSE IF ~Comparable(st, st.j, ref_val) THEN Incomparable(st, st.j, ref_val)
    ELSE IF compare_func(st.m.hp, ref_val, SlotAt(st, st.j)) = 0
    THEN Partition(Swapped([st EXCEPT !.q = USub(@, 1)], USub(st.q, 1), st.j),
                   ref_val, l, fuel - 1)
    ELSE Partition(st, ref_val, l, fuel - 1)

\* if ((*compare_func)(v->data[v->begin + i], ref_val) == 0) { p++; vect_swap(v, p, i); }
PartitionLeft(st, ref_val, l, fuel) ==
    IF Stopped(st.m) THEN st
    ELSE IF ~Comparable(st, st.i, ref_val) THEN Incomparable(st, st.i, ref_val)
    ELSE IF compare_func(st.m.hp, SlotAt(st, st.i), ref_val) = 0
    THEN PartitionRight(Swapped([st EXCEPT !.p = UAdd(@, 1)], UAdd(st.p, 1), st.i),
                        ref_val, l, fuel)
    ELSE PartitionRight(st, ref_val, l, fuel)

\* if (i >= j) break; vect_swap(v, i, j);
PartitionSwap(st, ref_val, l, fuel) ==
    IF Stopped(st.m) \/ st.i >= st.j THEN st
    ELSE PartitionLeft(Swapped(st, st.i, st.j), ref_val, l, fuel)

\* The second while loop, after the first.
PartitionDown(st, ref_val, l, fuel) ==
    IF Stopped(st.m) THEN st
    ELSE PartitionSwap(ScanDown(st, ref_val, l), ref_val, l, fuel)

\* One more turn of the for (;;) loop; fuel bounds the turns followed.
Partition(st, ref_val, l, fuel) ==
    IF Stopped(st.m) THEN st
    ELSE IF fuel = 0 THEN [st EXCEPT !.m.hp = Fault(@, TRUE, "diverges")]
    ELSE PartitionDown(ScanUp(st, ref_val), ref_val, l, fuel)

\* for (k = l; k < p; k++, j--) vect_swap(v, k, j);
RECURSIVE LeftEquals(_, _)
LeftEquals(st, k) ==
    IF Stopped(st.m) \/ ~(k < st.p) THEN st
    ELSE LeftEquals([Swapped(st, k, st.j) EXCEPT !.j = USub(@, 1)], UAdd(k, 1))

\* for (k = r - 1; k > q; k--, i++) vect_swap(v, k, i);
RECURSIVE RightEquals(_, _)
RightEquals(st, k) ==
    IF Stopped(st.m) \/ ~(k > st.q) THEN st
    ELSE RightEquals([Swapped(st, k, st.i) EXCEPT !.i = UAdd(@, 1)], USub(k, 1))

\* p_vect_qsort(v, l, r, compare_func) on the machine state and calls flag c;
\* depth is the number of nested calls still followed.
RECURSIVE p_vect_qsort(_, _, _, _)
SortState(st) == [m |-> st.m, calls |-> st.calls]

\* p_vect_qsort(v, l, j, compare_func); p_vect_qsort(v, i, r, compare_func);
QsortHalves(st, l, r, depth) ==
    IF Stopped(st.m) THEN SortState(st)
    ELSE p_vect_qsort(p_vect_qsort(SortState(st), l, st.j, depth - 1), st.i, r, depth - 1)

\* j = i - 1; i = i + 1; and the two for loops: the locals as the two
\* recursive calls find them.
QsortSplit(st, l, r) ==
    RightEquals(LeftEquals([st EXCEPT !.j = USub(st.i, 1), !.i = UAdd(st.i, 1)], l),
                USub(r, 1))

QsortEquals(st, l, r, depth) ==
    IF Stopped(st.m) THEN SortState(st)
    ELSE QsortHalves(QsortSplit(st, l, r), l, r, depth)

\* vect_swap(v, i, r);
QsortPivot(st, l, r, depth) ==
    IF Stopped(st.m) THEN SortState(st)
    ELSE QsortEquals(Swapped(st, st.i, r), l, r, depth)

\* The locals of p_vect_qsort(v, l, r, compare_func) before the for (;;) loop,
\* ref_val = v->data[v->begin + r] having been read.
QsortStart(c, l, r) ==
    LET i0 == IF l > 0 THEN USub(l, 1) ELSE l
    IN  [m |-> [c.m EXCEPT !.hp =
                   Fault(@, UAdd(c.m.v.begin, r) \notin DOMAIN c.m.v.data, "oob_read")],
         i |-> i0, j |-> r, p |-> i0, q |-> r, calls |-> c.calls]

p_vect_qsort(c, l, r, depth) ==
    LET ref_val == Rd(c.m.v.data, UAdd(c.m.v.begin, r))
    IN  IF r <= l \/ Stopped(c.m) THEN c
        ELSE IF depth = 0 THEN [c EXCEPT !.m.hp = Fault(@, TRUE, "diverges")]
        ELSE QsortPivot(Partition(QsortStart(c, l, r), ref_val, l, MaxDepth), l, r, depth)

\* The body of vect_qsort(v, compare_func), compare_func not NULL.
QsortBody(m) ==
    IF p_vect_size(m.v) <= 1 THEN [m |-> m, calls |-> FALSE]
    ELSE p_vect_qsort([m |-> m, calls |-> FALSE], 0, USub(p_vect_size(m.v), 1), MaxDepth)

\* The struct of a vector after p_vect_destroy: every field is zeroed.
Destroyed ==
    [cap_left |-> 0, cap_right |-> 0, begin |-> 0, end |-> 0, data_size |-> 0,
     flags |-> {}, data |-> ZeroBuf(0), init_capacity |-> 0, status |-> 0,
     balance |-> 0, bottom |-> 0]

\* p_vect_destroy(v, flags) on the vector m.v, its lock being free.
p_vect_destroy(m, flags) ==
    LET size == p_vect_size(m.v)
        \* Clear the vector:
        m1 == IF size > 0 /\ flags = 1 THEN FreeLoop(m, USub(size, 1), 0) ELSE m
        \* Reset interested descriptors:
        m2 == [m1 EXCEPT !.v.end = 0]
        \* Shrink Vector's capacity:
        m3 == IF p_vect_capacity(m2.v) > m2.v.init_capacity THEN p_vect_shrink(m2) ELSE m2
    IN  [m3 EXCEPT !.v = Destroyed, !.rval = OK]

\* The same call with the two vectors of the caller exchanged.
Flip(m) == [m EXCEPT !.v = m.o, !.o = m.v]

\* while (p_vect_capacity(v1) <= n) p_vect_increase_capacity(v1, 1);
\* The loop is followed while the capacity is within the bound of the model.
RECURSIVE GrowRight(_, _)
GrowRight(m, n) ==
    IF p_vect_capacity(m.v) <= n /\ p_vect_capacity(m.v) <= MaxCap
    THEN IF Refused(m, "slots")
         THEN [NoMemory(m) EXCEPT !.hp = Fault(@, TRUE, "diverges")]
         ELSE GrowRight(p_vect_increase_capacity(m, 1), n)
    ELSE m

\* The body of vect_copy(v1, v2, s2, e2): m.v is v1 and m.o is v2.
CopyBody(m, s2, e2) ==
    LET size2 == p_vect_size(m.o)
        ee2 == IF e2 = 0 THEN USub(USub(size2, 1), s2) ELSE e2
        \* Set the correct capacity for v1 to get the whole v2:
        m1 == GrowRight(m, UAdd(p_vect_size(m.v), ee2))
        to == m1.v.begin + p_vect_size(m1.v)
        from == m.o.begin + s2
    IN  IF m.v.data_size # m.o.data_size THEN [m EXCEPT !.rval = ZVERR_VECTDATASIZE]
        ELSE IF e2 > size2 \/ s2 > size2 THEN [m EXCEPT !.rval = ZVERR_IDXOUTOFBOUND]
        ELSE [m1 EXCEPT !.v.data = CopySlots(@, to, m.o.data, from, ee2),
                        !.hp = CopyFaults(@, m1.v.data, to, m.o.data, from, ee2),
                        !.v.end = UAdd(@, ee2),
                        !.rval = OK]

\* The body of vect_merge(v1, v2): m.v is v1 and m.o is v2.
MergeBody(m) ==
    LET size2 == p_vect_size(m.o)
        \* Set the correct capacity for v1 to get the whole v2:
        m1 == GrowRight(m, UAdd(p_vect_size(m.v), size2))
        to == m1.v.begin + p_vect_size(m1.v)
        \* Copy the whole v2 in v1 at the end of v1, update v1 size:
        m2 == [m1 EXCEPT !.v.data = CopySlots(@, to, m.o.data, m.o.begin, size2),
                         !.hp = CopyFaults(@, m1.v.data, to, m.o.data, m.o.begin, size2),
                         !.v.end = UAdd(@, size2)]
    IN  IF m.v.data_size # m.o.data_size THEN [m EXCEPT !.rval = ZVERR_VECTDATASIZE]
        ELSE Flip(p_vect_destroy(Flip(m2), 0))

\* The caller's functions for vect_apply_if: f2 tells whether the element of
\* v1 is less than the element of v2, f1 raises an element to the largest value.
f2(h, a, b) == h.mem[a] < h.mem[b]
f1(h, a) == Store(h, a, MaxVal)

\* for (i = p_vect_size(v1); i--;)
\*     if ((*f2)(v1->data[v1->begin + i], v2->data[v2->begin + i]))
\*         (*f1)(v1->data[v1->begin + i]);
RECURSIVE ApplyIfLoop(_, _)
ApplyIfLoop(m, i) ==
    IF i = 0 THEN m
    ELSE LET a == Rd(m.v.data, m.v.begin + (i - 1))
             b == Rd(m.o.data, m.o.begin + (i - 1))
         IN  IF a \notin m.hp.allocd \/ b \notin m.hp.allocd
             THEN [m EXCEPT !.hp = Fault(@, TRUE, "wild_read")]
             ELSE ApplyIfLoop(IF f2(m.hp, a, b) THEN [m EXCEPT !.hp = f1(@, a)] ELSE m,
                              i - 1)

\* The body of vect_apply_if(v1, v2, f1, f2): m.v is v1 and m.o is v2.
ApplyIfBody(m) ==
    IF p_vect_size(m.v) > p_vect_size(m.o) THEN [m EXCEPT !.rval = ZVERR_VECTTOOSMALL]
    ELSE [ApplyIfLoop(m, p_vect_size(m.v)) EXCEPT !.rval = OK]

\* The call (*f)(v->data[v->begin + i]) of vect_apply and vect_apply_range,
\* f the caller's f1; c is [m, calls], calls the indexes f was invoked on.
ApplyCall(c, i) ==
    LET a == Rd(c.m.v.data, c.m.v.begin + i)
    IN  IF a \notin c.m.hp.allocd
        THEN [c EXCEPT !.m.hp = Fault(@, TRUE, "wild_read")]
        ELSE [m |-> [c.m EXCEPT !.hp = f1(@, a)], calls |-> Append(c.calls, i)]

\* for (i = p_vect_size(v); i--;) (*f)(v->data[v->begin + i]);
RECURSIVE ApplyLoop(_, _)
ApplyLoop(c, i) ==
    IF i = 0 \/ Stopped(c.m) THEN c ELSE ApplyLoop(ApplyCall(c, i - 1), i - 1)

\* The body of vect_apply(v, f), f not NULL.
ApplyBody(m) == ApplyLoop([m |-> m, calls |-> <<>>], p_vect_size(m.v))

\* for (i = start; i <= end; i++) (*f)(v->data[v->begin + i]);
RECURSIVE ApplyRangeLoop(_, _, _)
ApplyRangeLoop(c, i, end) ==
    IF i > end \/ Stopped(c.m) THEN c ELSE ApplyRangeLoop(ApplyCall(c, i), i + 1, end)

\* The body of vect_apply_range(v, f, x, y), f not NULL.
ApplyRangeBody(m, x, y) ==
    LET start == IF x > y THEN x ELSE y
        end == IF x > y THEN y ELSE x
    IN  IF x > p_vect_size(m.v) \/ y > p_vect_size(m.v)
        THEN [m |-> [m EXCEPT !.rval = ZVERR_IDXOUTOFBOUND], calls |-> <<>>]
        ELSE ApplyRangeLoop([m |-> m, calls |-> <<>>], start, end)

\* The model follows a call no further once it asks for more element blocks
\* than the model has addresses for.
Unfollowed == "unfollowed"

\* for (i = s2; i <= s2 + ee2; i++, j++)
\*     vect_add_at(v1, v2->data[v2->begin + i], s1 + j);
RECURSIVE InsertLoop(_, _, _, _, _)
\* The loop after one call of vect_add_at has left m.
InsertNext(m, i, j, last, s1) ==
    IF Stopped(m) THEN m ELSE InsertLoop(m, i + 1, j + 1, last, s1)

\* The call vect_add_at(v1, p, s1 + j) of the loop, p having been read.
InsertOne(m, p, i, j, last, s1) ==
    IF Stopped(m) THEN m
    ELSE IF ZV_BYREF \in m.v.flags
    THEN InsertNext(p_vect_add_at(m, p, UAdd(s1, j), 0), i, j, last, s1)
    ELSE IF ~CanMalloc(m.hp) THEN [m EXCEPT !.rval = Unfollowed]
    ELSE InsertNext(p_vect_add_at(m, Load(m.hp, p), UAdd(s1, j), 0), i, j, last, s1)

InsertLoop(m, i, j, last, s1) ==
    IF i > last THEN m
    ELSE LET p == Rd(m.o.data, m.o.begin + i)
         IN  InsertOne([m EXCEPT !.hp = Fault(Fault(@, Outside(m.o.data, m.o.begin + i, 1),
                                                    "oob_read"),
                                              ZV_BYREF \notin m.v.flags
                                                  /\ p \notin m.hp.allocd, "bad_read")],
                       p, i, j, last, s1)

\* The body of vect_insert(v1, v2, s2, e2, s1): m.v is v1 and m.o is v2.
InsertBody(m, s2, e2, s1) ==
    LET size2 == p_vect_size(m.o)
        ee2 == IF e2 = 0 THEN USub(USub(size2, 1), s2) ELSE e2
    IN  IF m.v.data_size # m.o.data_size THEN [m EXCEPT !.rval = ZVERR_VECTDATASIZE]
        ELSE IF e2 > size2 \/ s2 > size2 THEN [m EXCEPT !.rval = ZVERR_IDXOUTOFBOUND]
        ELSE InsertLoop(m, s2, 0, UAdd(s2, ee2), s1)

\* for (i = s2; i <= s2 + ee2; i++) vect_delete_at(v2, i);
\* m.v is v2 and m.o is v1.
RECURSIVE MoveLoop(_, _, _)
MoveNext(m, i, last) == IF Stopped(m) THEN m ELSE MoveLoop(m, i + 1, last)
MoveLoop(m, i, last) ==
    IF i > last THEN m ELSE MoveNext(p_vect_delete_at(m, i, 0), i, last)

\* The body of vect_move(v1, v2, s2, e2): m.v is v1 and m.o is v2.
MoveBody(m, s2, e2) ==
    LET size2 == p_vect_size(m.o)
        ee2 == IF e2 = 0 THEN USub(USub(size2, 1), s2) ELSE e2
        \* Set the correct capacity for v1 to get the whole v2:
        m1 == GrowRight(m, UAdd(p_vect_size(m.v), ee2))
        to == m1.v.begin + p_vect_size(m1.v)
        from == m.o.begin + s2
        \* Copy v2 (from s2) in v1 at the end of v1, update v1 size:
        m2 == [m1 EXCEPT !.v.data = CopySlots(@, to, m.o.data, from, ee2),
                         !.hp = CopyFaults(@, m1.v.data, to, m.o.data, from, ee2),
                         !.v.end = UAdd(@, ee2)]
    IN  IF m.v.data_size # m.o.data_size THEN [m EXCEPT !.rval = ZVERR_VECTDATASIZE]
        ELSE IF e2 > m.o.data_size \/ s2 > size2 THEN [m EXCEPT !.rval = ZVERR_IDXOUTOFBOUND]
        ELSE IF Stopped(m2) THEN m2
        ELSE Flip(MoveLoop(Flip(m2), s2, UAdd(s2, ee2)))

\* The search in progress: c is [x, h, key], the vector, the heap and the
\* value *key; s is [bot, top, bad], the locals of p_adaptive_binary_search
\* and whether a comparison read a slot that holds no live element.
\* (*f1)(key, v->data[v->begin + k]) can be evaluated.
KeyComparable(c, k) ==
    /\ UAdd(c.x.begin, k) \in DOMAIN c.x.data
    /\ c.x.data[UAdd(c.x.begin, k)] \in c.h.allocd
\* (*f1)(key, v->data[v->begin + k]), f1 the order of the values.
KeyCompare(c, k) ==
    LET e == c.h.mem[c.x.data[UAdd(c.x.begin, k)]]
    IN  IF c.key < e THEN -1 ELSE IF c.key > e THEN 1 ELSE 0

\* The first while (1) loop: key >= array[bot], widen towards the end.
RECURSIVE WidenUp(_, _)
WidenUp(c, s) ==
    LET bot == UAdd(s.bot, s.top)
    IN  IF bot >= p_vect_size(c.x) THEN [s EXCEPT !.top = USub(p_vect_size(c.x), s.bot)]
        ELSE IF ~KeyComparable(c, bot) THEN [s EXCEPT !.bad = TRUE]
        ELSE IF KeyCompare(c, bot) < 0 THEN [s EXCEPT !.bot = USub(bot, s.top)]
        ELSE WidenUp(c, [s EXCEPT !.bot = bot, !.top = (2 * @) % IdxMod])

\* The second while (1) loop: key < array[bot], widen towards the start.
RECURSIVE WidenDown(_, _)
WidenDown(c, s) ==
    LET bot == USub(s.bot, s.top)
    IN  IF s.bot < s.top THEN [s EXCEPT !.top = s.bot, !.bot = 0]
        ELSE IF ~KeyComparable(c, bot) THEN [s EXCEPT !.bad = TRUE]
        ELSE IF KeyCompare(c, bot) >= 0 THEN [s EXCEPT !.bot = bot]
        ELSE WidenDown(c, [s EXCEPT !.bot = bot, !.top = (2 * @) % IdxMod])

\* monobound: while (top > 3) ...
RECURSIVE Monobound(_, _)
Monobound(c, s) ==
    LET mid == s.top \div 2
    IN  IF s.bad \/ ~(s.top > 3) THEN s
        ELSE IF ~KeyComparable(c, UAdd(s.bot, mid)) THEN [s EXCEPT !.bad = TRUE]
        ELSE Monobound(c, [s EXCEPT !.bot = IF KeyCompare(c, UAdd(s.bot, mid)) >= 0
                                             THEN UAdd(s.bot, mid) ELSE @,
                                    !.top = @ - mid])

\* while (top) ...: the result [found, index, bad].
RECURSIVE LastSteps(_, _)
LastSteps(c, s) ==
    LET top == s.top - 1
        k == UAdd(s.bot, top)
    IN  IF s.top = 0 THEN [found |-> FALSE, index |-> s.bot, bad |-> FALSE]
        ELSE IF ~KeyComparable(c, k) THEN [found |-> FALSE, index |-> 0, bad |-> TRUE]
        ELSE IF KeyCompare(c, k) = 0 THEN [found |-> TRUE, index |-> k, bad |-> FALSE]
        ELSE IF KeyCompare(c, k) > 0
        THEN [found |-> FALSE, index |-> UAdd(s.bot, top + 1), bad |-> FALSE]
        ELSE LastSteps(c, [s EXCEPT !.top = top])

\* p_adaptive_binary_search(v, key, item_index, f1): [found, index, bad] and
\* the values left in v->balance and v->bottom.
p_adaptive_binary_search(x, h, key) ==
    LET c == [x |-> x, h |-> h, key |-> key]
        whole == [bot |-> 0, top |-> p_vect_size(x), bad |-> FALSE]
        from == [bot |-> x.bottom, top |-> 32, bad |-> FALSE]
        s0 == IF x.balance >= 32 \/ p_vect_size(x) <= 64 THEN whole
              ELSE IF ~KeyComparable(c, x.bottom) THEN [from EXCEPT !.bad = TRUE]
              ELSE IF KeyCompare(c, x.bottom) >= 0 THEN WidenUp(c, from)
              ELSE WidenDown(c, from)
        s1 == Monobound(c, s0)
        r == LastSteps(c, s1)
    IN  IF s1.bad THEN [found |-> FALSE, index |-> 0, bad |-> TRUE,
                        balance |-> x.balance, bottom |-> x.bottom]
        ELSE [found |-> r.found, index |-> r.index, bad |-> r.bad,
              balance |-> IF x.bottom > s1.bot THEN USub(x.bottom, s1.bot)
                          ELSE USub(s1.bot, x.bottom),
              bottom |-> s1.bot]

\* The body of vect_bsearch(v, key, f1, item_index), key and f1 not NULL:
\* the index is reset to 0 when the key is not found.
BsearchBody(x, h, key) ==
    LET r == p_adaptive_binary_search(x, h, key)
    IN  IF p_vect_size(x) = 0
        THEN [found |-> FALSE, index |-> 0, bad |-> FALSE,
              balance |-> x.balance, bottom |-> x.bottom]
        ELSE IF r.found THEN r ELSE [r EXCEPT !.index = 0]

\* An add-ordered that appends whatever the order of the value.
AddOrderedAppends(m, value, key) == p_vect_add_at(m, value, p_vect_size(m.v), -1)

\* The body of vect_add_ordered(v, value, f1), value and f1 not NULL; key is
\* the value *value that f1 compares. vect_add and vect_add_at are the
\* public operations: p_vect_add_at in its lenient and in its strict mode.
AddOrderedBody(m, value, key) ==
    LET size == p_vect_size(m.v)
        c == [x |-> m.v, h |-> m.hp, key |-> key]
        r == p_adaptive_binary_search(m.v, m.hp, key)
    IN  IF size = 0 THEN p_vect_add_at(m, value, size, -1)
        ELSE IF ~KeyComparable(c, USub(size, 1))
        THEN [m EXCEPT !.hp = Fault(@, TRUE, "wild_read")]
        ELSE IF KeyCompare(c, USub(size, 1)) > 0 THEN p_vect_add_at(m, value, size, -1)
        ELSE IF r.bad THEN [m EXCEPT !.hp = Fault(@, TRUE, "wild_read")]
        ELSE p_vect_add_at([m EXCEPT !.v.balance = r.balance, !.v.bottom = r.bottom],
                           value, r.index, 0)

\* vect_create(init_capacity, item_size, properties), init_capacity > 0.
\* v->prev_end is written by the operations and read by none: the model
\* leaves it out.
vect_create(init_capacity, item_size, properties) ==
    LET capacity == IF init_capacity <= 4 THEN 4 ELSE init_capacity
        half == capacity \div 2
        circular == ZV_CIRCULAR \in properties
    IN  [cap_left |-> half,
         cap_right |-> half,
         begin |-> IF circular THEN half - 1 ELSE 1,
         end |-> IF circular THEN half - 1 ELSE 1,
         data_size |-> item_size,
         flags |-> properties,
         data |-> ZeroBuf(half + half),
         init_capacity |-> half + half,
         status |-> 0,
         balance |-> 0,
         bottom |-> 0]

----------------------------------------------------------------------------
\* The lock manager. L is [enabled, type, mutex]: lock_enabled, v->lock_type
\* and the recursive mutex v->lock ([owner, count], owner 0 when free).

mutex_lock(mx, t) == [owner |-> t, count |-> mx.count + 1]
\* Unlocking a recursive mutex the caller does not own fails and changes nothing.
mutex_unlock(mx, t) ==
    IF mx.owner # t THEN mx
    ELSE IF mx.count = 1 THEN [owner |-> 0, count |-> 0]
    ELSE [mx EXCEPT !.count = @ - 1]
MutexFreeFor(mx, t) == mx.owner \in {0, t}

\* A test that turns away a request at the priority the lock is held at.
LockAdmitsAbove(enabled, type, p) == enabled /\ p > type
\* check_mutex_lock's test, and its effect once mutex_lock has returned.
LockAdmits(enabled, type, p) == enabled /\ p >= type
\* check_mutex_unlock's test.
UnlockAdmits(enabled, type, p) == enabled /\ p = type

\* check_mutex_lock(v, p) run by thread t without interruption.
check_mutex_lock(L, t, p) ==
    IF LockAdmits(L.enabled, L.type, p)
    THEN [L EXCEPT !.mutex = mutex_lock(@, t), !.type = p, !.owner = 1]
    ELSE [L EXCEPT !.owner = 0]

\* check_mutex_unlock(v, p) run by thread t without interruption.
check_mutex_unlock(L, t, p) ==
    IF UnlockAdmits(L.enabled, L.type, p)
    THEN [L EXCEPT !.type = 0, !.mutex = mutex_unlock(@, t)]
    ELSE L

\* The wrapper of a public operation of priority p around a body that takes
\* no lock: lock_owner = check_mutex_lock(v, p); ...;
\* if (lock_owner) check_mutex_unlock(v, p).
LockWrapped(L, t, p) ==
    LET a == check_mutex_lock(L, t, p)
    IN  IF a.owner = 1 THEN check_mutex_unlock(a, t, p) ELSE a

----------------------------------------------------------------------------
\* Spec: one caller, one vector.

Caller == 1

\* A call on the first vector: m.v is the vector operated on, m.o the other
\* vector of the caller.
Machine == [v |-> v, o |-> v2.x, hp |-> hp, rval |-> OK, item |-> NULL, failed |-> FALSE]
\* A call on the second vector.
Machine2 == [v |-> v2.x, o |-> v, hp |-> hp, rval |-> OK, item |-> NULL, failed |-> FALSE]

\* The pointer vect_get_at(v, i) returns, i < size.
p_vect_get_at(x, i) == Rd(x.data, x.begin + i)

\* The body of vect_get_at(v, i): an index past the last element is refused.
GetAtBody(m, i) ==
    IF i >= p_vect_size(m.v) THEN [m EXCEPT !.rval = ZVERR_IDXOUTOFBOUND]
    ELSE [m EXCEPT !.item = p_vect_get_at(m.v, i),
                   !.hp = Fault(@, Outside(m.v.data, m.v.begin + i, 1), "oob_read")]

\* The live elements as the caller reads them with vect_get_at(0 .. size-1).
Contents(x, h) ==
    [k \in 1..p_vect_size(x) |-> Load(h, p_vect_get_at(x, k - 1))]

\* The caller's argument for an insertion of value val: the value itself for
\* a by-value vector, a pointer to a block of the caller's for a by-reference one.
WithArg(m, val) ==
    IF ZV_BYREF \in m.v.flags
    THEN [m EXCEPT !.hp = Store(Malloc(@), MallocAddr(m.hp), val),
                   !.item = MallocAddr(m.hp)]
    ELSE [m EXCEPT !.item = val]

\* What the caller does with a removed item: read it and, when it is a block
\* of its own (by-reference), release it.
ItemValue(m) ==
    IF ZV_BYREF \in m.v.flags THEN IF m.item = NULL THEN NULL ELSE Load(m.hp, m.item)
    ELSE m.item
AfterItem(m) ==
    IF ZV_BYREF \in m.v.flags /\ m.item \in m.hp.allocd
    THEN free(m, m.item) ELSE m

\* Operations are offered while they leave the capacity within the bound, or
\* do not raise it.
InBounds(m) == p_vect_capacity(m.v) <= Max(MaxCap, p_vect_capacity(v))

\* The blocks the slots of d point to.
Refs(d) == {d[k] : k \in DOMAIN d} \cap Handles

\* A by-value vector owns its element blocks: a block that is still allocated
\* when no slot points to it can never be freed. The leak is recorded.
Leaks(m) ==
    IF ZV_BYREF \notin m.v.flags
       /\ m.hp.allocd \ (Refs(m.v.data) \cup Refs(m.o.data)) # {}
    THEN [m EXCEPT !.hp = Fault(@, TRUE, "leak")]
    ELSE m

\* The program never compares or orders the addresses malloc returns: a state
\* is kept up to the names of its blocks, numbered in the order in which the
\* slots of v->data first point to them.
RECURSIVE FirstSeen(_, _, _)
FirstSeen(d, lo, hi) ==
    IF hi - lo <= 0 THEN <<>>
    ELSE IF hi - lo = 1 THEN IF d[lo] > 0 THEN <<d[lo]>> ELSE <<>>
    ELSE LET mid == (lo + hi) \div 2
             left == FirstSeen(d, lo, mid)
             right == FirstSeen(d, mid, hi)
             seen == {left[i] : i \in 1..Len(left)}
         IN  left \o SelectSeq(right, LAMBDA a : a \notin seen)
Canon(m) ==
    LET d == m.v.data
        e == m.o.data
        first == FirstSeen(d, 0, BufLen(d))
        seen == {first[i] : i \in 1..Len(first)}
        names == first \o SelectSeq(FirstSeen(e, 0, BufLen(e)), LAMBDA a : a \notin seen)
        Name(a) == CHOOSE i \in 1..Len(names) : names[i] = a
    IN  IF m.hp.fault # {} THEN [m EXCEPT !.hp.wiped = {}]
        ELSE [m EXCEPT !.hp.wiped = {},
                       !.v.data = [k \in DOMAIN d |->
                                      IF d[k] > 0 THEN Name(d[k]) ELSE d[k]],
                       !.o.data = [k \in DOMAIN e |->
                                      IF e[k] > 0 THEN Name(e[k]) ELSE e[k]],
                       !.hp.allocd = {i \in 1..Len(names) : names[i] \in m.hp.allocd},
                       !.hp.mem = [h \in DOMAIN m.hp.mem |->
                                      IF h <= Len(names) /\ names[h] \in m.hp.allocd
                                      THEN m.hp.mem[names[h]] ELSE 0]]

\* An invalid memory access corrupts the heap or ends the process, and an
\* operation that fails calls p_throw_error, which exits: the model follows
\* the program no further.
Alive == hp.fault = {} /\ ret.rval = OK


\* The state left by a public operation: its wrapper takes and releases the
\* lock at priority p around the body, which leaves machine state m.
\* m.v is the first vector, m.o the second, ptr2 the caller's pointer to it.
ReturnsState(m, ptr2, L, op, item) ==
    /\ InBounds(m)
    /\ p_vect_capacity(m.o) <= MaxCap
    /\ \E c \in {Canon(Leaks(m))} :
           v' = c.v /\ v2' = [ptr |-> ptr2, x |-> c.o] /\ hp' = c.hp
    /\ ret' = [op |-> op, rval |-> m.rval, item |-> item]
    /\ lock_enabled' = L.enabled
    /\ lock_type' = L.type
    /\ mutex' = L.mutex

\* The same when the caller is the only thread.
ReturnsBoth(m, ptr2, L, op, item) ==
    /\ ReturnsState(m, ptr2, L, op, item)
    /\ UNCHANGED thvars

ReturnsWith(m, L, op, item) == ReturnsBoth(m, v2.ptr, L, op, item)

LockNow == [enabled |-> lock_enabled, type |-> lock_type, mutex |-> mutex, owner |-> 0]

Returns(m, p, op, item) == ReturnsWith(m, LockWrapped(LockNow, Caller, p), op, item)

\* The wrapper of a public operation of priority p whose body calls public
\* operations of priority q (when called is true).
LockNested(L, t, p, q, called) ==
    LET a == check_mutex_lock(L, t, p)
        b == IF called THEN [LockWrapped(a, t, q) EXCEPT !.owner = a.owner] ELSE a
    IN  IF a.owner = 1 THEN check_mutex_unlock(b, t, p) ELSE b

CanInsert == p_vect_size(v) < MaxSize /\ CanMalloc(hp)

vect_push(val) ==
    /\ Alive
    /\ CanInsert
    /\ LET a == WithArg(Machine, val)
           m == p_vect_add_at(a, a.item, p_vect_size(v), -1)
       IN  Returns(m, 1, "push", NULL)

vect_add_front(val) ==
    /\ Alive
    /\ CanInsert
    /\ LET a == WithArg(Machine, val)
           m == p_vect_add_at(a, a.item, 0, -1)
       IN  Returns(m, 1, "add_front", NULL)

vect_add_at(val, i) ==
    /\ Alive
    /\ CanInsert
    /\ LET a == WithArg(Machine, val)
           m == p_vect_add_at(a, a.item, i, 0)
       IN  Returns(m, 1, "add_at", NULL)

vect_put_at(val, i) ==
    /\ Alive
    /\ CanMalloc(hp)
    /\ LET a == WithArg(Machine, val)
           m == p_vect_put_at(a, a.item, i)
       IN  Returns(m, 1, "put_at", NULL)

\* vect_get_at(v, i): it takes no lock; the caller reads the element.
vect_get_at(i) ==
    /\ Alive
    /\ LET m == GetAtBody(Machine, i)
       IN  ReturnsWith(m, LockNow, "get_at", Load(m.hp, m.item))

vect_pop ==
    /\ Alive
    /\ LET m == p_vect_remove_at(Machine, USub(p_vect_size(v), 1), -1)
       IN  Returns(AfterItem(m), 1, "pop", ItemValue(m))

vect_remove_front ==
    /\ Alive
    /\ LET m == p_vect_remove_at(Machine, 0, 0)
       IN  Returns(AfterItem(m), 1, "remove_front", ItemValue(m))

vect_remove_at(i) ==
    /\ Alive
    /\ LET m == p_vect_remove_at(Machine, i, 0)
       IN  Returns(AfterItem(m), 1, "remove_at", ItemValue(m))

vect_delete_at(i) ==
    /\ Alive
    /\ Returns(p_vect_delete_at(Machine, i, 0), 1, "delete_at", NULL)

vect_delete_range(first_element, last_element) ==
    /\ Alive
    /\ Returns(p_vect_delete_at(Machine, first_element,
                                USub(last_element, first_element)),
               1, "delete_range", NULL)

vect_clear ==
    /\ Alive
    /\ Returns(ClearBody(Machine), 1, "clear", NULL)

vect_shrink ==
    /\ Alive
    /\ Returns(p_vect_shrink(Machine), 1, "shrink", NULL)

vect_rotate_left(i) ==
    /\ Alive
    /\ Returns(RotateLeftBody(Machine, i), 1, "rotate_left", NULL)

vect_rotate_right(i) ==
    /\ Alive
    /\ Returns(RotateRightBody(Machine, i), 1, "rotate_right", NULL)

vect_swap(i1, i2) ==
    /\ Alive
    /\ Returns(SwapBody(Machine, i1, i2), 1, "swap", NULL)

vect_qsort ==
    /\ Alive
    /\ mutex.count < MaxLocks
    /\ LET c == QsortBody(Machine)
       IN  ReturnsWith(c.m, LockNested(LockNow, Caller, 1, 1, c.calls), "qsort", NULL)

\* vect_bsearch(v, &key, f1, &item_index): it takes no lock.
vect_bsearch(key) ==
    /\ Alive
    /\ LET r == BsearchBody(v, hp, key)
       IN  /\ v' = [v EXCEPT !.balance = r.balance, !.bottom = r.bottom]
           /\ hp' = Fault(hp, r.bad, "wild_read")
           /\ ret' = [op |-> "bsearch", rval |-> OK, item |-> r.index,
                      found |-> r.found, key |-> key]
    /\ UNCHANGED <<v2, lockvars, thvars>>

\* A call on the second vector; a call that fails ends the process.
Returns2(m, op, item) ==
    ReturnsBoth(Flip(m), IF m.rval = OK /\ op = "destroy2" THEN "freed" ELSE "valid",
                LockNow, op, item)

\* p_vect_check(v2) and what follows when v2 is not a live vector: NULL is
\* refused, and a pointer to a freed struct passes the check and is used.
NotLive2(op) ==
    /\ v2.ptr # "valid"
    /\ hp' = Fault(hp, v2.ptr = "freed", "use_after_free")
    /\ ret' = [op |-> op, rval |-> IF v2.ptr = "null" THEN ZVERR_VECTUNDEF ELSE OK,
               item |-> NULL]
    /\ UNCHANGED <<v, v2, lockvars, thvars>>

\* v2 = vect_create(c, item_size, properties of the first vector)
vect_create2(c, item_size) ==
    /\ Alive
    /\ v2.ptr = "null"
    /\ v2' = [ptr |-> "valid", x |-> vect_create(c, item_size, v.flags)]
    /\ ret' = [op |-> "create2", rval |-> OK, item |-> NULL]
    /\ UNCHANGED <<v, hp, lockvars, thvars>>

\* vect_push(v2, &val)
vect_push2(val) ==
    /\ Alive
    /\ \/ NotLive2("push2")
       \/ /\ v2.ptr = "valid"
          /\ p_vect_size(v2.x) < MaxSize /\ CanMalloc(hp)
          /\ LET a == WithArg(Machine2, val)
                 m == p_vect_add_at(a, a.item, p_vect_size(v2.x), -1)
             IN  Returns2(m, "push2", NULL)

\* vect_remove_front(v2)
vect_remove_front2 ==
    /\ Alive
    /\ \/ NotLive2("remove_front2")
       \/ /\ v2.ptr = "valid"
          /\ LET m == p_vect_remove_at(Machine2, 0, 0)
             IN  Returns2(AfterItem(m), "remove_front2", ItemValue(m))

\* vect_copy(v, v2, s2, e2)
vect_copy(s2, e2) ==
    /\ Alive
    /\ \/ NotLive2("copy")
       \/ /\ v2.ptr = "valid"
          /\ ReturnsWith(CopyBody(Machine, s2, e2), LockWrapped(LockNow, Caller, 2),
                         "copy", NULL)

\* vect_merge(v, v2)
vect_merge ==
    /\ Alive
    /\ \/ NotLive2("merge")
       \/ /\ v2.ptr = "valid"
          /\ LET m == MergeBody(Machine)
             IN  ReturnsBoth(m, IF m.rval = OK THEN "freed" ELSE "valid",
                             LockWrapped(LockNow, Caller, 2), "merge", NULL)

\* vect_apply_if(v, v2, f1, f2)
vect_apply_if ==
    /\ Alive
    /\ \/ NotLive2("apply_if")
       \/ /\ v2.ptr = "valid"
          /\ Returns(ApplyIfBody(Machine), 1, "apply_if", NULL)

\* What a call of vect_apply or vect_apply_range leaves: c is [m, calls].
Applied(c, op) ==
    /\ \E k \in {Canon(Leaks(c.m))} : v' = k.v /\ v2' = [v2 EXCEPT !.x = k.o] /\ hp' = k.hp
    /\ ret' = [op |-> op, rval |-> c.m.rval, item |-> NULL, calls |-> c.calls]
    /\ lock_enabled' = LockWrapped(LockNow, Caller, 1).enabled
    /\ lock_type' = LockWrapped(LockNow, Caller, 1).type
    /\ mutex' = LockWrapped(LockNow, Caller, 1).mutex
    /\ UNCHANGED thvars

\* vect_apply(v, f1)
vect_apply ==
    /\ Alive
    /\ Applied(ApplyBody(Machine), "apply")

\* vect_apply_range(v, f1, x, y)
vect_apply_range(x, y) ==
    /\ Alive
    /\ Applied(ApplyRangeBody(Machine, x, y), "apply_range")

\* vect_insert(v, v2, s2, e2, s1); the calls of vect_add_at in its loop ask
\* for the lock at priority 1.
vect_insert(s2, e2, s1) ==
    /\ Alive
    /\ \/ NotLive2("insert")
       \/ /\ v2.ptr = "valid"
          /\ LET m == InsertBody(Machine, s2, e2, s1)
             IN  /\ m.rval # Unfollowed
                 /\ ReturnsWith(m, LockNested(LockNow, Caller, 2, 1, TRUE), "insert", NULL)

\* vect_move(v, v2, s2, e2)
vect_move(s2, e2) ==
    /\ Alive
    /\ \/ NotLive2("move")
       \/ /\ v2.ptr = "valid"
          /\ ReturnsWith(MoveBody(Machine, s2, e2), LockWrapped(LockNow, Caller, 2),
                         "move", NULL)

EmptyHeap == [mem |-> [a \in Handles |-> 0], allocd |-> {}, fault |-> {}, nomem |-> {}, wiped |-> {}]

\* The caller has no second vector: its pointer is NULL.
NoVector == [ptr |-> "null", x |-> Destroyed]

InitWith(props) ==
    /\ \E c \in 1..MaxInitCap : v = vect_create(c, 1, props)
    /\ v2 = NoVector
    /\ hp = EmptyHeap
    /\ ret = [op |-> "create", rval |-> OK, item |-> NULL]
    /\ lock_enabled = TRUE
    /\ lock_type = 0
    /\ mutex = [owner |-> 0, count |-> 0]
    /\ th = <<>>
    /\ inbody = {}

\* A by-value, non-circular vector.
Init == InitWith({})

Indexes == 0..MaxSize

Next ==
    \/ \E val \in Values : vect_push(val)
    \/ \E val \in Values : vect_add_front(val)
    \/ \E val \in Values, i \in Indexes : vect_add_at(val, i)
    \/ \E val \in Values, i \in Indexes : vect_put_at(val, i)
    \/ vect_pop
    \/ vect_remove_front
    \/ \E i \in Indexes : vect_remove_at(i)
    \/ \E i \in Indexes : vect_delete_at(i)
    \/ \E i \in Indexes : \E j \in i..MaxSize : vect_delete_range(i, j)
    \/ vect_clear
    \/ vect_shrink

Spec == Init /\ [][Next]_vars

\* The insertions and removals of single elements only.
SeqNext ==
    \/ \E val \in Values : vect_push(val)
    \/ \E val \in Values : vect_add_front(val)
    \/ \E val \in Values, i \in Indexes : vect_add_at(val, i)
    \/ vect_pop
    \/ vect_remove_front
    \/ \E i \in Indexes : vect_remove_at(i)

SeqSpec == Init /\ [][SeqNext]_vars

\* A vector used as a queue or a stack, and emptied at once with
\* vect_delete_range(v, 0, size - 1).
vect_delete_all ==
    /\ p_vect_size(v) > 0
    /\ vect_delete_range(0, USub(p_vect_size(v), 1))

QueueNext ==
    \/ \E val \in Values : vect_push(val)
    \/ \E val \in Values : vect_add_front(val)
    \/ vect_pop
    \/ vect_remove_front
    \/ vect_delete_all

\* A by-value or a by-reference vector.
AnyInit == InitWith({}) \/ InitWith({ZV_BYREF})

QueueSpec == AnyInit /\ [][QueueNext]_vars

\* A vector filled from both ends and rotated.
RotateNext ==
    \/ \E val \in Values : vect_push(val)
    \/ \E val \in Values : vect_add_front(val)
    \/ vect_pop
    \/ vect_remove_front
    \/ \E i \in Indexes : vect_rotate_left(i)
    \/ \E i \in Indexes : vect_rotate_right(i)

RotateSpec == Init /\ [][RotateNext]_vars

\* The state after vect_create(4, 1, ZV_BYREF) and vect_push of the caller's
\* blocks k .. n, in this order, onto the machine state m.
RECURSIVE Pushed(_, _, _)
Pushed(m, k, n) ==
    IF k > n THEN m
    ELSE LET m1 == p_vect_add_at([m EXCEPT !.item = k], k, p_vect_size(m.v), -1)
         IN  IF m1.v.data = m1.v.data THEN Pushed(m1, k + 1, n) ELSE m1

\* A sorted by-reference vector of n elements; every value occurs once
\* (twin = 0) or twice (twin = 1).
SortedStart(n, twin) ==
    LET h == [mem |-> [a \in 1..n |-> 2 * ((a + twin) \div (twin + 1))],
              allocd |-> 1..n, fault |-> {}, nomem |-> {}, wiped |-> {}]
        m == Pushed([v |-> vect_create(4, 1, {ZV_BYREF}), o |-> Destroyed, hp |-> h,
                     rval |-> OK, item |-> NULL, failed |-> FALSE], 1, n)
    IN  /\ v = m.v
        /\ v2 = NoVector
        /\ hp = m.hp
        /\ ret = [op |-> "push", rval |-> OK, item |-> NULL]
        /\ lock_enabled = TRUE
        /\ lock_type = 0
        /\ mutex = [owner |-> 0, count |-> 0]
        /\ inbody = {}

\* The same, the caller being the only thread.
SortedInit(n, twin) == SortedStart(n, twin) /\ th = <<>>

\* Keys around the first, the middle and the last element of the vector.
SearchKeys ==
    LET xs == Contents(v, hp)
        at == {1, (Len(xs) + 1) \div 2, Len(xs)} \cap DOMAIN xs
    IN  {xs[i] : i \in at} \cup {xs[i] + 1 : i \in at} \cup {1}

\* A sorted vector that is searched and shortened.
SearchNext ==
    \/ \E key \in SearchKeys : vect_bsearch(key)
    \/ p_vect_size(v) + MaxPops > BigSize /\ vect_pop

SearchSpec == (\E twin \in {0, 1} : SortedInit(BigSize, twin)) /\ [][SearchNext]_vars

----------------------------------------------------------------------------
\* Several threads on one sorted vector: some search it, some shorten it.
\* th[t] is [pc, key, lock_owner]: what thread t is executing, the key it
\* searches for and what its check_mutex_lock returned; inbody holds the
\* threads that are between the entry and the exit of an operation's body.
Threads == 1..MaxThreads
Idle == [pc |-> "idle", key |-> 0, lock_owner |-> 0]

ThreadsInit ==
    /\ \E twin \in {0, 1} : SortedStart(BigSize, twin)
    /\ th = [t \in Threads |-> Idle]

\* Thread t calls vect_bsearch(v, &key, f1, &item_index): p_vect_check and the
\* test of the parameters pass, no lock is asked for, and the search begins.
BsearchEnters(t, key) ==
    /\ Alive
    /\ th[t] = Idle
    /\ p_vect_size(v) # 0
    /\ th' = [th EXCEPT ![t] = [pc |-> "bsearch", key |-> key, lock_owner |-> 0]]
    /\ inbody' = inbody \cup {t}
    /\ UNCHANGED <<vecvars, lockvars>>

\* Its p_adaptive_binary_search reads the slots, writes v->balance and
\* v->bottom, and vect_bsearch returns.
BsearchLeaves(t) ==
    /\ Alive
    /\ th[t].pc = "bsearch"
    /\ LET r == BsearchBody(v, hp, th[t].key)
       IN  /\ v' = [v EXCEPT !.balance = r.balance, !.bottom = r.bottom]
           /\ hp' = Fault(hp, r.bad, "wild_read")
           /\ ret' = [op |-> "bsearch", rval |-> OK, item |-> r.index,
                      found |-> r.found, key |-> th[t].key]
    /\ th' = [th EXCEPT ![t] = Idle]
    /\ inbody' = inbody \ {t}
    /\ UNCHANGED <<v2, lockvars>>

\* Thread t calls vect_pop(v): lock_owner = check_mutex_lock(v, 1), where
\* mutex_lock waits for the mutex while another thread owns it.
PopEnters(t) ==
    /\ Alive
    /\ th[t] = Idle
    /\ p_vect_size(v) + MaxPops > BigSize
    /\ LockAdmits(lock_enabled, lock_type, 1) => mutex.owner \in {0, t}
    /\ LET L == check_mutex_lock(LockNow, t, 1)
       IN  /\ lock_type' = L.type
           /\ mutex' = L.mutex
           /\ th' = [th EXCEPT ![t] = [pc |-> "pop", key |-> 0, lock_owner |-> L.owner]]
    /\ inbody' = inbody \cup {t}
    /\ UNCHANGED <<vecvars, lock_enabled>>

\* It removes the last element, if (lock_owner) check_mutex_unlock(v, 1),
\* and returns.
PopLeaves(t) ==
    /\ Alive
    /\ th[t].pc = "pop"
    /\ LET m == p_vect_remove_at(Machine, USub(p_vect_size(v), 1), -1)
           L == IF th[t].lock_owner = 1 THEN check_mutex_unlock(LockNow, t, 1) ELSE LockNow
       IN  ReturnsState(AfterItem(m), v2.ptr, L, "pop", ItemValue(m))
    /\ th' = [th EXCEPT ![t] = Idle]
    /\ inbody' = inbody \ {t}

ThreadsNext ==
    \/ \E t \in Threads, key \in SearchKeys : BsearchEnters(t, key)
    \/ \E t \in Threads : BsearchLeaves(t)
    \/ \E t \in Threads : PopEnters(t)
    \/ \E t \in Threads : PopLeaves(t)

ThreadsSpec == ThreadsInit /\ [][ThreadsNext]_vars

----------------------------------------------------------------------------
\* A vector filled with vect_add_ordered only: a by-value vector, a
\* by-reference vector whose elements are blocks of the caller, and a large
\* by-reference vector already filled in ascending order.

\* A heap of n blocks, the first k of them allocated with the values vals.
CallerHeap(n, k, vals) ==
    [mem |-> [a \in 1..n |-> IF a <= k THEN vals[a] ELSE 0],
     allocd |-> 1..k, fault |-> {}, nomem |-> {}, wiped |-> {}]

\* The first vector is x, on heap h; there is no second vector.
StartsWith(x, h) ==
    /\ v = x
    /\ v2 = NoVector
    /\ hp = h
    /\ ret = [op |-> "create", rval |-> OK, item |-> NULL, key |-> 0]
    /\ lock_enabled = TRUE
    /\ lock_type = 0
    /\ mutex = [owner |-> 0, count |-> 0]
    /\ th = <<>>
    /\ inbody = {}

\* The large vector of SortedStart with room for MaxRoom more blocks.
LargeSorted(twin) ==
    LET vals == [a \in 1..BigSize |-> 2 * ((a + twin) \div (twin + 1))]
        m == Pushed([v |-> vect_create(4, 1, {ZV_BYREF}), o |-> Destroyed,
                     hp |-> CallerHeap(BigSize + MaxRoom, BigSize, vals),
                     rval |-> OK, item |-> NULL, failed |-> FALSE], 1, BigSize)
    IN  StartsWith(m.v, m.hp)

OrderedInit ==
    \/ StartsWith(vect_create(4, 1, {}), EmptyHeap)
    \/ StartsWith(vect_create(4, 1, {ZV_BYREF}), CallerHeap(MaxOrdered, 0, <<>>))
    \/ \E twin \in {0, 1} : LargeSorted(twin)

\* The block the caller keeps the next value in: the lowest free one.
CallerBlock(h) ==
    CHOOSE a \in DOMAIN h.mem \ h.allocd : \A b \in DOMAIN h.mem \ h.allocd : a <= b

\* The caller's argument for vect_add_ordered(v, &value, f1).
WithOrderedArg(m, val) ==
    IF ZV_BYREF \in m.v.flags
    THEN [m EXCEPT !.hp.allocd = @ \cup {CallerBlock(m.hp)},
                   !.hp.mem[CallerBlock(m.hp)] = val,
                   !.item = CallerBlock(m.hp)]
    ELSE [m EXCEPT !.item = val]

\* vect_add_ordered(v, &val, f1), f1 the order of the values; it takes the
\* lock at priority 2 and calls vect_add or vect_add_at, of priority 1.
vect_add_ordered(val) ==
    /\ Alive
    /\ DOMAIN hp.mem \ hp.allocd # {}
    /\ ZV_BYREF \notin v.flags => p_vect_size(v) < MaxSize
    /\ LET a == WithOrderedArg(Machine, val)
           m == AddOrderedBody(a, a.item, val)
           L == LockNested(LockNow, Caller, 2, 1, TRUE)
       IN  /\ \E c \in {Canon(Leaks(m))} : v' = c.v /\ hp' = c.hp
           /\ ret' = [op |-> "add_ordered", rval |-> m.rval, item |-> NULL, key |-> val]
           /\ lock_enabled' = L.enabled
           /\ lock_type' = L.type
           /\ mutex' = L.mutex
    /\ UNCHANGED <<v2, thvars>>

\* The values add-ordered is called with: small ones, and values around the
\* first, the middle and the last element.
OrderedKeys == (1..3) \cup SearchKeys

OrderedNext == \E val \in OrderedKeys : vect_add_ordered(val)

OrderedSpec == OrderedInit /\ [][OrderedNext]_vars

\* Two vectors filled at the back, emptied at the front, and merged.
MergeNext ==
    \/ \E val \in Values : vect_push(val)
    \/ vect_remove_front
    \/ \E c \in 1..MaxInitCap : vect_create2(c, v.data_size)
    \/ \E val \in Values : vect_push2(val)
    \/ vect_remove_front2
    \/ vect_merge

MergeSpec == Init /\ [][MergeNext]_vars

\* Two vectors filled at the back; ranges of the second are copied to the first.
CopyNext ==
    \/ \E val \in Values : vect_push(val)
    \/ \E c \in 1..MaxInitCap : vect_create2(c, v.data_size)
    \/ \E val \in Values : vect_push2(val)
    \/ \E s2, e2 \in Indexes : p_vect_size(v) < MaxSize /\ vect_copy(s2, e2)

CopySpec == Init /\ [][CopyNext]_vars

\* A vector filled from both ends and sorted.
SortNext ==
    \/ \E val \in Values : vect_push(val)
    \/ \E val \in Values : vect_add_front(val)
    \/ vect_pop
    \/ vect_remove_front
    \/ vect_qsort

SortSpec == Init /\ [][SortNext]_vars

\* A vector filled from both ends and overwritten in place.

PutNext ==
    \/ \E val \in Values : vect_push(val)
    \/ \E val \in Values : vect_add_front(val)
    \/ \E val \in Values, i \in Indexes : vect_put_at(val, i)
    \/ vect_pop
    \/ vect_remove_front

PutSpec == AnyInit /\ [][PutNext]_vars

\* A vector read, written, filled and emptied at any index.
IndexNext ==
    \/ \E val \in Values, i \in Indexes : vect_add_at(val, i)
    \/ \E val \in Values, i \in Indexes : vect_put_at(val, i)
    \/ \E i \in Indexes : vect_get_at(i)
    \/ \E i \in Indexes : vect_remove_at(i)
    \/ \E i \in Indexes : vect_delete_at(i)

IndexSpec == Init /\ [][IndexNext]_vars

\* The element sizes vectors are created with.
DataSizes == {1, 2}

\* Two vectors, of equal or different element sizes, filled at the back and
\* handed to the operations on two vectors.
BulkNext ==
    \/ \E val \in Values : vect_push(val)
    \/ \E c \in 1..MaxInitCap, size \in DataSizes : vect_create2(c, size)
    \/ \E val \in Values : vect_push2(val)
    \/ vect_apply_if
    \/ \E s2, e2 \in Indexes : p_vect_size(v) < MaxSize /\ vect_copy(s2, e2)
    \/ \E s2, e2, s1 \in Indexes : p_vect_size(v) < MaxSize /\ vect_insert(s2, e2, s1)
    \/ \E s2, e2 \in Indexes : p_vect_size(v) < MaxSize /\ vect_move(s2, e2)
    \/ vect_merge

BulkSpec == Init /\ [][BulkNext]_vars

\* vect_set_wipefunct(v, f1): it takes no lock. The block it allocates for
\* v->SfWpFunc is lost when f1 is assigned; it is no element block.
vect_set_wipefunct ==
    /\ Alive
    /\ v.status # ZVS_CUST_WIPE_ON
    /\ v' = [v EXCEPT !.status = ZVS_CUST_WIPE_ON]
    /\ ret' = [op |-> "set_wipefunct", rval |-> OK, item |-> NULL]
    /\ UNCHANGED <<v2, hp, lockvars, thvars>>

\* A vector created with secure wipe, by value or by reference, with or
\* without a wipe function of the caller's.
WipeInit == InitWith({ZV_SEC_WIPE}) \/ InitWith({ZV_SEC_WIPE, ZV_BYREF})

WipeNext ==
    \/ vect_set_wipefunct
    \/ \E val \in Values : vect_push(val)
    \/ \E val \in Values, i \in Indexes : vect_put_at(val, i)
    \/ vect_pop
    \/ \E i \in Indexes : vect_remove_at(i)
    \/ \E i \in Indexes : vect_delete_at(i)
    \/ vect_clear

WipeSpec == WipeInit /\ [][WipeNext]_vars

\* A vector filled by vect_add_at only, at the ends and at any index.
GrowNext == \E val \in Values, i \in Indexes : vect_add_at(val, i)

GrowSpec == AnyInit /\ [][GrowNext]_vars

\* A vector filled from both ends, two of whose elements change places.
SwapNext ==
    \/ \E val \in Values : vect_push(val)
    \/ \E val \in Values : vect_add_front(val)
    \/ \E i1, i2 \in Indexes : vect_swap(i1, i2)

SwapSpec == AnyInit /\ [][SwapNext]_vars

\* A vector filled from both ends whose elements the caller's function visits.
ApplyNext ==
    \/ \E val \in 1..(MaxVal - 1) : vect_push(val)
    \/ \E val \in 1..(MaxVal - 1) : vect_add_front(val)
    \/ vect_pop
    \/ vect_remove_front
    \/ vect_apply
    \/ \E x, y \in Indexes : vect_apply_range(x, y)

ApplySpec == Init /\ [][ApplyNext]_vars

\* The rest of the program uses up the memory: from now on the allocator
\* refuses the requests of the given kinds.
MemoryRunsOut(kinds) ==
    /\ Alive
    /\ hp.nomem = {}
    /\ hp' = [hp EXCEPT !.nomem = kinds]
    /\ UNCHANGED <<v, v2, ret, lockvars, thvars>>

\* The rest of the program releases memory: the allocator serves every request.
MemoryComesBack ==
    /\ Alive
    /\ hp.nomem # {}
    /\ hp' = [hp EXCEPT !.nomem = {}]
    /\ UNCHANGED <<v, v2, ret, lockvars, thvars>>

MemoryKinds == {{"slots"}, {"item"}, {"slots", "item"}}

\* A vector used while memory runs out and comes back.
MemNext ==
    \/ \E val \in Values : vect_push(val)
    \/ \E val \in Values : vect_add_front(val)
    \/ vect_pop
    \/ vect_remove_front
    \/ vect_shrink
    \/ \E kinds \in MemoryKinds : MemoryRunsOut(kinds)
    \/ MemoryComesBack

MemSpec == AnyInit /\ [][MemNext]_vars

----------------------------------------------------------------------------
\* Properties of the sequence operations.

\* C1: for a non-circular vector, after every successful public operation in
\* any sequence of push, add-front, add-at, pop, remove-front, remove-at,
\* delete-at, delete-range, clear and shrink starting from creation,
\* 0 <= begin <= end <= cap_left + cap_right: the live range never extends
\* past the allocated slot buffer.
C1_LiveRangeInBuffer ==
    (ZV_CIRCULAR \notin v.flags /\ ret.rval = OK)
        => /\ 0 <= v.begin
           /\ v.begin <= v.end
           /\ v.end <= v.cap_left + v.cap_right

\* The abstract list operations.
Insert(xs, i, val) == SubSeq(xs, 1, i) \o <<val>> \o SubSeq(xs, i + 1, Len(xs))
Delete(xs, i) == SubSeq(xs, 1, i) \o SubSeq(xs, i + 2, Len(xs))

\* One step of the vector, seen as a step of the abstract list xs to ys.
ListStep(xs, ys) ==
    /\ \A val \in Values :
           vect_push(val) => ys = Insert(xs, Len(xs), val)
    /\ \A val \in Values :
           vect_add_front(val) => ys = Insert(xs, 0, val)
    /\ \A val \in Values, i \in Indexes :
           (i <= Len(xs) /\ vect_add_at(val, i)) => ys = Insert(xs, i, val)
    /\ (Len(xs) > 0 /\ vect_pop)
           => ys = Delete(xs, Len(xs) - 1) /\ ret'.item = xs[Len(xs)]
    /\ (Len(xs) > 0 /\ vect_remove_front)
           => ys = Delete(xs, 0) /\ ret'.item = xs[1]
    /\ \A i \in Indexes :
           (i < Len(xs) /\ vect_remove_at(i))
               => ys = Delete(xs, i) /\ ret'.item = xs[i + 1]

\* C2: for every finite sequence of push, add-front, add-at(i <= size), pop,
\* remove-front and remove-at(i < size) applied to a freshly created
\* non-circular by-value vector, the values read by get-at(0..size-1) and the
\* values returned by the removals equal those of an abstract list subjected
\* to the same operations, across every capacity growth and shrink: every
\* step of the vector is the same step of the list its elements form.
C2_RefinesList ==
    [][ListStep(Contents(v, hp), Contents(v', hp'))]_vars

\* A removal that leaves machine state m has handed back what the insertion
\* of argument machine a put in: an equal value for a by-value vector, the
\* same pointer for a by-reference one.
HandsBack(m, a) == m.item = a.item

\* The machine state after vect_add_front(val) followed by vect_remove_front().
AddFrontThenRemoveFront(val) ==
    LET a == WithArg(Machine, val)
        added == p_vect_add_at(a, a.item, 0, -1)
        b == [added EXCEPT !.item = NULL]
    IN  p_vect_remove_at(b, 0, 0)

\* C11: in every reachable state of a non-circular vector, add-front(x)
\* immediately followed by remove-front() returns a value equal to x, restores
\* the size to its value before the add-front, and leaves the other elements
\* and their order unchanged.
C11_AddFrontRemoveFrontRoundTrip ==
    (Alive /\ ZV_CIRCULAR \notin v.flags /\ CanMalloc(hp))
        => \A val \in Values :
               LET m == AddFrontThenRemoveFront(val)
               IN  /\ m.rval = OK
                   /\ HandsBack(m, WithArg(Machine, val))
                   /\ p_vect_size(m.v) = p_vect_size(v)
                   /\ Contents(m.v, m.hp) = Contents(v, hp)

\* The slots of the live range, as pointers.
Slots(x) == [k \in 1..p_vect_size(x) |-> p_vect_get_at(x, k - 1)]

\* C12: for every index i in [0, size) of a non-circular vector, put-at(i, x)
\* followed by get-at(i) yields x (an equal value for a by-value vector, the
\* same pointer for a by-reference one), and put-at changes neither the size,
\* begin, end, the capacities nor any other element.
C12_PutThenGet ==
    (Alive /\ ZV_CIRCULAR \notin v.flags /\ CanMalloc(hp))
        => \A val \in Values : \A i \in 0..(p_vect_size(v) - 1) :
               LET a == WithArg(Machine, val)
                   m == p_vect_put_at(a, a.item, i)
                   got == p_vect_get_at(m.v, i)
               IN  /\ m.rval = OK
                   /\ m.hp.fault = {}
                   /\ IF ZV_BYREF \in v.flags THEN got = a.item
                      ELSE Load(m.hp, got) = val
                   /\ m.v.begin = v.begin /\ m.v.end = v.end
                   /\ m.v.cap_left = v.cap_left /\ m.v.cap_right = v.cap_right
                   /\ \A k \in 1..p_vect_size(v) :
                          k # i + 1 => /\ Slots(m.v)[k] = Slots(v)[k]
                                       /\ Contents(m.v, m.hp)[k] = Contents(v, hp)[k]

\* C13: for every reachable vector state (any begin offset) and every k with
\* 0 <= k <= size, rotate-left(k) followed by rotate-right(k) leaves the
\* element sequence exactly as it was.
C13_RotateLeftThenRight ==
    Alive => \A k \in 0..p_vect_size(v) :
                 LET m == RotateRightBody(RotateLeftBody(Machine, k), k)
                 IN  /\ m.rval = OK
                     /\ Contents(m.v, m.hp) = Contents(v, hp)

\* Whether the sequence xs of values is non-decreasing.
NonDecreasing(xs) == \A a, b \in 1..Len(xs) : a <= b => xs[a] <= xs[b]
\* Whether ys holds the values of xs, each as often as xs does.
Permutation(xs, ys) ==
    /\ Len(xs) = Len(ys)
    /\ \A x \in Values \cup {Indet, 0} :
           Cardinality({a \in 1..Len(xs) : xs[a] = x})
               = Cardinality({a \in 1..Len(ys) : ys[a] = x})

\* C14: for every vector content (any size, duplicates, any begin offset)
\* vect_qsort terminates, leaves the live range non-decreasing under the
\* comparator and a permutation of the input, and sorting a second time
\* leaves the sequence unchanged.
C14_QsortSortsAndIsIdempotent ==
    Alive => LET once == QsortBody(Machine).m
                 twice == QsortBody(once).m
             IN  /\ ~Stopped(once)
                 /\ NonDecreasing(Contents(once.v, once.hp))
                 /\ Permutation(Contents(v, hp), Contents(once.v, once.hp))
                 /\ ~Stopped(twice)
                 /\ Contents(twice.v, twice.hp) = Contents(once.v, once.hp)

\* The indexes of the live elements equal to key.
Matches(key) == {i \in 0..(p_vect_size(v) - 1) : Contents(v, hp)[i + 1] = key}

\* C15: on a sorted vector, a search for a key equal to some element
\* reports found and returns an index j in [0, size) whose element equals
\* the key, whatever balance and bottom earlier searches left.
C15_BsearchFindsPresentKey ==
    (ret.op = "bsearch" /\ Matches(ret.key) # {})
        => /\ hp.fault = {}
           /\ ret.found
           /\ ret.item \in Matches(ret.key)

\* C16: on a sorted vector, a search for a key equal to no element reports
\* not found and returns the insertion position of the key: the number of
\* elements less than the key.
C16_BsearchReturnsInsertionPosition ==
    (ret.op = "bsearch" /\ hp.fault = {} /\ Matches(ret.key) = {})
        => /\ ~ret.found
           /\ ret.item = Cardinality({i \in 0..(p_vect_size(v) - 1) :
                                         Contents(v, hp)[i + 1] < ret.key})

\* C17: for two by-value vectors of equal data_size, whatever their begin
\* offsets, merge(v1, v2) leaves v1 holding its old elements followed by the
\* old elements of v2, with end(v1) <= cap_left(v1) + cap_right(v1), and
\* destroys v2.
C17_MergeAppendsAndDestroys ==
    [][(vect_merge /\ v2.ptr = "valid")
          => /\ ret'.rval = OK
             /\ hp'.fault = {}
             /\ Contents(v', hp') = Contents(v, hp) \o Contents(v2.x, hp)
             /\ v'.end <= p_vect_capacity(v')
             /\ v2' = [ptr |-> "freed", x |-> Destroyed]]_vars

\* A public operation invoked on the second vector.
OnSecond ==
    \/ \E val \in Values : vect_push2(val)
    \/ vect_remove_front2
    \/ vect_merge

\* C18: once merge(v1, v2) has returned, every later public operation
\* invoked on v2 fails with the undefined-vector error and touches no state.
C18_MergedVectorIsUndefined ==
    [][(v2.ptr = "freed" /\ OnSecond)
          => /\ ret'.rval = ZVERR_VECTUNDEF
             /\ hp' = hp
             /\ v' = v
             /\ v2' = v2]_vars

\* The pointers in the live slots of vector x, in index order.
LiveSlots(x) == [k \in 1..p_vect_size(x) |-> p_vect_get_at(x, k - 1)]

\* C19: after any sequence of operations on by-value vectors every live slot
\* holds a handle to an allocated element, and no handle appears in two live
\* slots, of the same vector or of two vectors.
C19_LiveSlotsOwnDistinctElements ==
    (Alive /\ ZV_BYREF \notin v.flags)
        => LET live == LiveSlots(v) \o LiveSlots(v2.x)
           IN  /\ \A k \in DOMAIN live : live[k] \in hp.allocd
               /\ \A j, k \in DOMAIN live : live[j] = live[k] => j = k

\* Whether the call that leaves machine state m has freed no element block.
FreesNothing(m) == hp.allocd \subseteq m.hp.allocd

\* C20: on a by-reference vector no operation (pop, remove-front, remove-at,
\* delete-at, delete-range, put-at, clear, destroy) frees an element the
\* caller supplied: every pointer that was inserted is still allocated when
\* the operation returns.
C20_ByRefNeverFrees ==
    (Alive /\ ZV_BYREF \in v.flags)
        => /\ FreesNothing(p_vect_remove_at(Machine, USub(p_vect_size(v), 1), -1))
           /\ FreesNothing(p_vect_remove_at(Machine, 0, 0))
           /\ FreesNothing(ClearBody(Machine))
           /\ FreesNothing(p_vect_destroy(Machine, 1))
           /\ \A i \in Indexes :
                  /\ FreesNothing(p_vect_remove_at(Machine, i, 0))
                  /\ FreesNothing(p_vect_delete_at(Machine, i, 0))
                  /\ \A j \in i..MaxSize :
                         FreesNothing(p_vect_delete_at(Machine, i, USub(j, i)))
                  /\ \A val \in Values :
                         CanMalloc(hp) =>
                             LET a == WithArg(Machine, val)
                             IN  FreesNothing(p_vect_put_at(a, a.item, i))

\* The machine state after vect_push(val) followed by vect_pop().
PushThenPop(val) ==
    LET a == WithArg(Machine, val)
        pushed == p_vect_add_at(a, a.item, p_vect_size(v), -1)
        b == [pushed EXCEPT !.item = NULL]
    IN  p_vect_remove_at(b, USub(p_vect_size(b.v), 1), -1)

\* C10: in every reachable state of a non-circular vector, push(x) immediately
\* followed by pop() returns a value equal to x, restores the size to its
\* value before the push, and leaves the other elements and their order
\* unchanged.
C10_PushPopRoundTrip ==
    (Alive /\ ZV_CIRCULAR \notin v.flags /\ CanMalloc(hp))
        => \A val \in Values :
               LET m == PushThenPop(val)
               IN  /\ m.rval = OK
                   /\ HandsBack(m, WithArg(Machine, val))
                   /\ p_vect_size(m.v) = p_vect_size(v)
                   /\ Contents(m.v, m.hp) = Contents(v, hp)

\* Whether the call that leaves machine state m has left the vector as it was:
\* begin, end, the capacities and the element sequence.
SameVector(m) ==
    /\ m.v.begin = v.begin /\ m.v.end = v.end
    /\ m.v.cap_left = v.cap_left /\ m.v.cap_right = v.cap_right
    /\ Contents(m.v, m.hp) = Contents(v, hp)

\* Whether the call that leaves m, if one of its allocations failed, reports
\* out-of-memory and has left the vector as it was.
FailsCleanly(m) ==
    m.failed => /\ m.rval = ZVERR_OUTOFMEM
                /\ m.hp.fault = {}
                /\ SameVector(m)

\* C21: when any memory allocation made by an operation fails (slot-buffer
\* growth, per-element slot allocation, or a scratch buffer), the operation
\* reports out-of-memory and the vector's begin, end, cap_left, cap_right and
\* element sequence are what they were before the call.
C21_AllocationFailureLeavesVectorUnchanged ==
    (Alive /\ CanMalloc(hp))
        => /\ \A val \in Values : \A i \in 0..p_vect_size(v) :
                  LET a == WithArg(Machine, val)
                  IN  FailsCleanly(p_vect_add_at(a, a.item, i, 0))
           /\ \A i \in 0..(p_vect_size(v) - 1) :
                  /\ FailsCleanly(p_vect_remove_at(Machine, i, 0))
                  /\ FailsCleanly(p_vect_delete_at(Machine, i, 0))
           /\ FailsCleanly(p_vect_shrink(Machine))

\* Whether the call that leaves machine state m was refused with
\* index-out-of-bounds and has left the vector as it was.
RefusedIndex(m) ==
    /\ m.rval = ZVERR_IDXOUTOFBOUND
    /\ m.hp.fault = {}
    /\ SameVector(m)

\* The calls of add-at, put-at, get-at and delete-at with an index past the
\* end are refused.
OutOfRangeRefused ==
    /\ \A val \in Values : \A i \in Indexes :
           LET a == WithArg(Machine, val)
           IN  /\ i > p_vect_size(v) => RefusedIndex(p_vect_add_at(a, a.item, i, 0))
               /\ i >= p_vect_size(v) => RefusedIndex(p_vect_put_at(a, a.item, i))
    /\ \A i \in Indexes :
           i >= p_vect_size(v) => RefusedIndex(GetAtBody(Machine, i))
    /\ \A start \in Indexes : \A offset \in Indexes :
           start + offset >= p_vect_size(v)
               => RefusedIndex(p_vect_delete_at(Machine, start, offset))

\* C22 as stated: on a non-circular vector of any size >= 0, add-at with
\* i > size, and put-at, get-at, remove-at (strict mode) and delete-at with an
\* index (or start + offset) >= size, are refused with index-out-of-bounds and
\* leave begin, end, the capacities and the element sequence unchanged.
C22_OutOfRangeIndexRefused ==
    (Alive /\ ZV_CIRCULAR \notin v.flags /\ CanMalloc(hp))
        => /\ OutOfRangeRefused
           /\ \A i \in Indexes :
                  i >= p_vect_size(v) => RefusedIndex(p_vect_remove_at(Machine, i, 0))

\* C22, amended: the same, except that remove-at on an empty vector is not
\* refused: it reports no error, returns no item and leaves the vector as
\* it was.
C22_OutOfRangeIndexRefusedUnlessEmpty ==
    (Alive /\ ZV_CIRCULAR \notin v.flags /\ CanMalloc(hp))
        => /\ OutOfRangeRefused
           /\ \A i \in Indexes :
                  LET m == p_vect_remove_at(Machine, i, 0)
                  IN  /\ (i >= p_vect_size(v) /\ p_vect_size(v) > 0) => RefusedIndex(m)
                      /\ p_vect_size(v) = 0
                             => /\ m.rval = OK /\ m.item = NULL
                                /\ m.hp.fault = {} /\ SameVector(m)

\* A refused call on a vector that holds elements, and a remove-at on an
\* empty vector.
C22_Witness ==
    /\ p_vect_size(v) > 0
    /\ ret.op \in {"add_at", "put_at", "get_at", "remove_at", "delete_at"}
    /\ ret.rval = ZVERR_IDXOUTOFBOUND

\* Whether the call on the two vectors that leaves machine state m was refused
\* with datasize-mismatch and has left both vectors and the heap as they were.
RefusedDataSize(m) ==
    /\ m.rval = ZVERR_VECTDATASIZE
    /\ m.v = v /\ m.o = v2.x /\ m.hp = hp

\* C23: each two-vector bulk operation (apply-if, copy, insert-range,
\* move-range, merge) called with v1.data_size # v2.data_size fails with
\* datasize-mismatch and leaves both vectors unchanged (merge does not
\* destroy v2).
C23_DataSizeMismatchRefused ==
    (Alive /\ v2.ptr = "valid" /\ v.data_size # v2.x.data_size)
        => /\ RefusedDataSize(ApplyIfBody(Machine))
           /\ RefusedDataSize(MergeBody(Machine))
           /\ \A s2, e2 \in Indexes :
                  /\ RefusedDataSize(CopyBody(Machine, s2, e2))
                  /\ RefusedDataSize(MoveBody(Machine, s2, e2))
                  /\ \A s1 \in Indexes : RefusedDataSize(InsertBody(Machine, s2, e2, s1))

----------------------------------------------------------------------------
\* A circular vector, by value or by reference, and the operations on single
\* elements.
CircularInit == InitWith({ZV_CIRCULAR}) \/ InitWith({ZV_CIRCULAR, ZV_BYREF})

CircularNext ==
    \/ \E val \in Values : vect_push(val)
    \/ \E val \in Values, i \in Indexes : vect_add_at(val, i)
    \/ \E val \in Values, i \in Indexes : vect_put_at(val, i)
    \/ vect_pop
    \/ \E i \in Indexes : vect_remove_at(i)

CircularSpec == CircularInit /\ [][CircularNext]_vars

\* C24: a vector created with the circular property has
\* size == cap_left + cap_right - 1 and cap_left + cap_right == init_capacity
\* immediately after creation and after every sequence of push, add-at,
\* put-at, pop and remove-at.
C24_CircularVectorIsFull ==
    (ZV_CIRCULAR \in v.flags /\ Alive)
        => /\ p_vect_size(v) = p_vect_capacity(v) - 1
           /\ p_vect_capacity(v) = v.init_capacity

\* A vector that grows and shrinks at both ends, loses elements in the middle,
\* is shrunk and is cleared.
ClearNext ==
    \/ \E val \in Values : vect_push(val)
    \/ \E val \in Values : vect_add_front(val)
    \/ vect_pop
    \/ vect_remove_front
    \/ \E i \in Indexes : vect_delete_at(i)
    \/ vect_shrink
    \/ vect_clear

ClearSpec == Init /\ [][ClearNext]_vars

\* C25: after clear on any reachable vector, begin == 1 and end == 1 (size
\* 0), and cap_left, cap_right and init_capacity are what they were before
\* the call. Stated of every vect_clear that ends without a memory fault.
C25_ClearResetsBeginEndOnly ==
    [][(ret'.op = "clear" /\ hp'.fault = {})
           => /\ v'.begin = 1
              /\ v'.end = 1
              /\ v'.cap_left = v.cap_left
              /\ v'.cap_right = v.cap_right
              /\ v'.init_capacity = v.init_capacity]_vars

\* A grown vector has been cleared: its elements are released and its
\* capacity is still above the initial one.
C25_Witness ==
    /\ ret.op = "clear"
    /\ Alive
    /\ hp.allocd = {}
    /\ p_vect_capacity(v) > v.init_capacity

\* C26: for a non-circular vector, after every successful operation in any
\* sequence of insertions, removals, deletions, clear and shrink,
\* cap_left + cap_right >= init_capacity.
C26_CapacityAtLeastInitial ==
    (ZV_CIRCULAR \notin v.flags /\ Alive) => p_vect_capacity(v) >= v.init_capacity

\* A removal has brought a grown vector back to a side of half the initial
\* capacity, the other side still being larger.
C26_Witness ==
    /\ Alive
    /\ ret.op \in {"pop", "remove_front", "delete_at"}
    /\ v.cap_left # v.cap_right
    /\ (v.cap_left = v.init_capacity \div 2 \/ v.cap_right = v.init_capacity \div 2)
    /\ p_vect_size(v) > 0

\* What C27 says of a removal at index idx that took the vector from x to y:
\* the side of the removal (left when idx is 0) is halved, to no less than
\* init_capacity / 2 and no less than size / 2, the other side is unchanged.
RemovalSideHalved(x, y, idx) ==
    LET floor == Max(x.init_capacity \div 2, p_vect_size(y) \div 2)
    IN  IF idx = 0
        THEN /\ y.cap_left = Max(x.cap_left \div 2, floor)
             /\ y.cap_right = x.cap_right
        ELSE /\ y.cap_right = Max(x.cap_right \div 2, floor)
             /\ y.cap_left = x.cap_left

C28_ShrinkFitsCapacity ==
    (Alive /\ ZV_CIRCULAR \notin v.flags)
        => LET m == p_vect_shrink(Machine)
           IN  m.rval = OK
                   => /\ p_vect_capacity(m.v) = Max(v.init_capacity, p_vect_size(v) + 2)
                      /\ Slots(m.v) = Slots(v)
                      /\ m.v.end <= p_vect_capacity(m.v)

\* The sequence xs without its elements at indices start .. start + offset
\* (counted from 0).
Without(xs, start, offset) ==
    SubSeq(xs, 1, start) \o SubSeq(xs, start + offset + 2, Len(xs))

\* C29: for every start and offset with start + offset < size (including
\* start == 0 with offset > 0), delete-at(start, offset) leaves the vector
\* holding exactly the old elements at indices outside
\* [start, start + offset], in their old order, with size reduced by
\* offset + 1.
C29_DeleteAtRemovesExactlyTheRange ==
    (Alive /\ ZV_CIRCULAR \notin v.flags)
        => \A start \in Indexes : \A offset \in Indexes :
               start + offset < p_vect_size(v)
                   => LET d == p_vect_delete_at(Machine, start, offset)
                      IN  /\ d.rval = OK
                          /\ p_vect_size(d.v) = p_vect_size(v) - (offset + 1)
                          /\ Slots(d.v) = Without(Slots(v), start, offset)

\* C30: for every reachable vector state, whatever the value of begin, and
\* every k with 0 < k < size (including k == 1), rotate-left(k) leaves
\* new[i] == old[(i + k) mod size] for all i in [0, size), touches no slot
\* outside [begin, end), and leaves begin, end and the capacities unchanged.
C30_RotateLeftShiftsLiveRange ==
    Alive
        => \A k \in 1..(p_vect_size(v) - 1) :
               LET r == RotateLeftBody(Machine, k)
                   size == p_vect_size(v)
               IN  /\ r.rval = OK
                   /\ \A i \in 0..(size - 1) :
                          p_vect_get_at(r.v, i) = p_vect_get_at(v, (i + k) % size)
                   /\ \A s \in DOMAIN v.data :
                          (s < v.begin \/ s >= v.end) => r.v.data[s] = v.data[s]
                   /\ DOMAIN r.v.data = DOMAIN v.data
                   /\ r.v.begin = v.begin /\ r.v.end = v.end
                   /\ r.v.cap_left = v.cap_left /\ r.v.cap_right = v.cap_right

\* The locals of the outermost call p_vect_qsort(v, 0, n - 1) at its two
\* recursive calls p_vect_qsort(v, l, j) and p_vect_qsort(v, i, r).
OutermostSplit ==
    LET n == p_vect_size(v)
        c == [m |-> Machine, calls |-> FALSE]
        r == USub(n, 1)
        st == Partition(QsortStart(c, 0, r), Rd(v.data, UAdd(v.begin, r)), 0, MaxDepth)
    IN  QsortSplit(Swapped(st, st.i, r), 0, r)

\* C31: during vect_qsort on a vector of size n >= 2 with zvect_index an
\* unsigned integer, every recursive call p_vect_qsort(l, r) has r <= n - 1
\* (no wrap-around of j = i - 1 below zero), and every slot the sort reads or
\* swaps has an index in [0, n). Stated of the recursive calls of the
\* outermost call, and of the whole sort as the absence of a read outside
\* the live elements.
C31_QsortStaysInLiveRange ==
    (Alive /\ p_vect_size(v) >= 2)
        => /\ OutermostSplit.j <= p_vect_size(v) - 1
           /\ QsortBody(Machine).m.hp.fault = {}

\* C32: with locking enabled, bsearch runs inside the vector's critical
\* section: balance and bottom are written, and slots are read, only by a
\* thread that holds the vector's mutex, so no step of a search interleaves
\* with another thread's mutation or search on the same vector.
C32_BsearchHoldsTheMutex ==
    lock_enabled
        => \A t \in inbody :
               th[t].pc = "bsearch" => /\ mutex.owner = t
                                       /\ inbody = {t}

\* Whether xs and ys hold the same values, each as often.
SameBag(xs, ys) ==
    /\ Len(xs) = Len(ys)
    /\ \A x \in {xs[a] : a \in 1..Len(xs)} \cup {ys[a] : a \in 1..Len(ys)} :
           Cardinality({a \in 1..Len(xs) : xs[a] = x})
               = Cardinality({a \in 1..Len(ys) : ys[a] = x})

\* C33: after any sequence of add-ordered calls with the same total-order
\* comparator on an initially empty non-circular vector, the vector is
\* non-decreasing under the comparator and is a permutation of the values
\* inserted (duplicates kept). Stated of every call: it succeeds, adds its
\* value to the values held and leaves the vector non-decreasing.
C33_AddOrderedKeepsOrder ==
    [][ret'.op = "add_ordered"
           => /\ hp'.fault = {}
              /\ ret'.rval = OK
              /\ NonDecreasing(Contents(v', hp'))
              /\ SameBag(Contents(v', hp'), Contents(v, hp) \o <<ret'.key>>)]_vars

\* Insertions in the middle of a small vector whose search halves its
\* window, and of the large one whose search starts from v->bottom.
C33_Witness ==
    /\ Alive
    /\ ret.op = "add_ordered"
    /\ p_vect_size(v) \in {MaxOrdered, BigSize + MaxRoom}
    /\ Contents(v, hp)[1] < ret.key
    /\ ret.key < Contents(v, hp)[p_vect_size(v)]

\* The elements copy, move and insert select from a vector that holds xs:
\* e2 of them from index s2, and with e2 = 0 all from s2 to the last one.
Selected(xs, s2, e2) == SubSeq(xs, s2 + 1, IF e2 = 0 THEN Len(xs) ELSE s2 + e2)

\* Whether s2 and e2 select elements of a vector of the given size.
Selects(size, s2, e2) == s2 + e2 <= size /\ (e2 = 0 => s2 < size)

\* C34: copy(v1, v2, s2, e2) leaves v1 holding its old elements followed by
\* the e2 elements v2[s2 .. s2+e2-1] in order, and with e2 = 0 followed by
\* every element of v2 from s2 to the last one inclusive; v2 is unchanged and
\* end(v1) <= cap_left(v1) + cap_right(v1).
C34_CopyAppendsTheRange ==
    [][\A s2, e2 \in Indexes :
           (vect_copy(s2, e2) /\ v2.ptr = "valid" /\ Selects(p_vect_size(v2.x), s2, e2))
               => /\ ret'.rval = OK
                  /\ hp'.fault = {}
                  /\ Contents(v', hp') = Contents(v, hp) \o Selected(Contents(v2.x, hp), s2, e2)
                  /\ Contents(v2'.x, hp') = Contents(v2.x, hp)
                  /\ v2'.x.begin = v2.x.begin /\ v2'.x.end = v2.x.end
                  /\ v'.end <= p_vect_capacity(v')]_vars

\* xs without the elements s2 and e2 select.
Unselected(xs, s2, e2) ==
    SubSeq(xs, 1, s2) \o SubSeq(xs, s2 + Len(Selected(xs, s2, e2)) + 1, Len(xs))

\* C35: move-range(v1, v2, s2, e2) appends the selected range of v2 to v1 and
\* then removes exactly that range from v2: afterwards v2 holds its old
\* elements outside the range, in order, none of the moved elements, and
\* size(v1) + size(v2) equals the sum of the two sizes before the call.
C35_MoveRangeTransfersTheRange ==
    [][\A s2, e2 \in Indexes :
           (vect_move(s2, e2) /\ v2.ptr = "valid" /\ Selects(p_vect_size(v2.x), s2, e2))
               => /\ ret'.rval = OK
                  /\ hp'.fault = {}
                  /\ Contents(v', hp') = Contents(v, hp) \o Selected(Contents(v2.x, hp), s2, e2)
                  /\ Contents(v2'.x, hp') = Unselected(Contents(v2.x, hp), s2, e2)
                  /\ p_vect_size(v') + p_vect_size(v2'.x)
                         = p_vect_size(v) + p_vect_size(v2.x)]_vars

\* C36: insert-range(v1, v2, s2, e2, s1) with s2 + e2 <= size(v2) and
\* s1 <= size(v1) inserts exactly the e2 elements v2[s2 .. s2+e2-1] into v1 at
\* positions s1 .. s1+e2-1 in order, so size(v1) grows by exactly e2, the old
\* elements of v1 keep their relative order, and v2 is unchanged.
C36_InsertRangeInsertsHalfOpenRange ==
    [][\A s2, s1 \in Indexes, e2 \in Indexes \ {0} :
           (/\ vect_insert(s2, e2, s1)
            /\ v2.ptr = "valid"
            /\ s2 + e2 <= p_vect_size(v2.x)
            /\ s1 <= p_vect_size(v))
               => /\ ret'.rval = OK
                  /\ hp'.fault = {}
                  /\ Contents(v', hp')
                         = SubSeq(Contents(v, hp), 1, s1)
                               \o SubSeq(Contents(v2.x, hp), s2 + 1, s2 + e2)
                               \o SubSeq(Contents(v, hp), s1 + 1, p_vect_size(v))
                  /\ p_vect_size(v') = p_vect_size(v) + e2
                  /\ Contents(v2'.x, hp') = Contents(v2.x, hp)
                  /\ v2'.x.begin = v2.x.begin /\ v2'.x.end = v2.x.end]_vars

\* The indexes from a up to b, ascending, and from b down to a.
Ascending(a, b) == [k \in 1..(b - a + 1) |-> a + k - 1]
Descending(a, b) == [k \in 1..(b - a + 1) |-> b - k + 1]

\* C37: apply(v, f) invokes f exactly once on every live element, from the
\* last index down to index 0, and apply-range(v, f, x, y) with x, y < size
\* invokes f exactly once on every element whose index lies between x and y
\* inclusive, in ascending index order, and on no other slot.
C37_ApplyVisitsEveryElementOnce ==
    [][/\ vect_apply => ret'.calls = Descending(0, p_vect_size(v) - 1)
       /\ \A x, y \in 0..(p_vect_size(v) - 1) :
              vect_apply_range(x, y)
                  => ret'.calls = Ascending(IF x < y THEN x ELSE y, IF x < y THEN y ELSE x)]_vars

\* Whether the call that leaves m has wiped the elements at the indexes idxs
\* of the vector, with the function the vector is set to wipe with.
Wiped(m, idxs) ==
    m.hp.fault = {}
        => \A i \in idxs :
               <<IF v.status = ZVS_CUST_WIPE_ON THEN "SfWpFunc" ELSE "memset",
                 p_vect_get_at(v, i)>> \in m.hp.wiped

\* C38: on a vector created with secure-wipe, every element is wiped before
\* its slot is freed or overwritten, in every operation that frees or
\* overwrites (pop, remove-at, delete-at, clear, destroy, put-at); the wipe is
\* done by the custom wipe function whenever one is installed and by zeroing
\* data_size bytes otherwise. (A wipe after the free is a memory fault.)
C38_SecureWipeBeforeFreeOrOverwrite ==
    (Alive /\ ZV_SEC_WIPE \in v.flags /\ p_vect_size(v) > 0)
        => LET all == 0..(p_vect_size(v) - 1)
           IN  /\ ZV_BYREF \notin v.flags
                      => /\ Wiped(p_vect_remove_at(Machine, USub(p_vect_size(v), 1), -1),
                                  {p_vect_size(v) - 1})
                         /\ \A i \in all : Wiped(p_vect_remove_at(Machine, i, 0), {i})
               /\ \A i \in all : Wiped(p_vect_delete_at(Machine, i, 0), {i})
               /\ Wiped(ClearBody(Machine), all)
               /\ Wiped(p_vect_destroy(Machine, 1), all)
               /\ \A i \in all, val \in Values :
                      CanMalloc(hp)
                          => Wiped(p_vect_put_at(WithArg(Machine, val),
                                                 WithArg(Machine, val).item, i), {i})

\* C39: swap(v, i, j) with i >= size or j >= size (including i == size or
\* j == size) fails with index-out-of-bounds and changes no slot; with
\* i, j < size it exchanges exactly the two handles at i and j and changes no
\* other slot, begin, end or capacity.
C39_SwapChecksBothIndexes ==
    Alive
        => \A i, j \in Indexes :
               LET m == SwapBody(Machine, i, j)
                   a == v.begin + i
                   b == v.begin + j
               IN  IF i >= p_vect_size(v) \/ j >= p_vect_size(v)
                   THEN m.rval = ZVERR_IDXOUTOFBOUND /\ m.v = v /\ m.hp = hp
                   ELSE /\ m.rval = OK
                        /\ m.hp = hp
                        /\ m.v = [v EXCEPT !.data = [@ EXCEPT ![a] = v.data[b],
                                                              ![b] = v.data[a]]]

\* C40: an insertion changes capacity only by growth: add-at at index 0
\* doubles cap_left exactly once, and only when begin == 0 or cap_left == 1,
\* leaving cap_right unchanged; add-at at any other index doubles cap_right
\* exactly once, and only when end >= cap_right, leaving cap_left, begin and
\* the existing elements unchanged; in every other case both capacities are
\* unchanged.
C40_InsertionGrowsOneSideOnce ==
    [][\A val \in Values, i \in Indexes :
           vect_add_at(val, i)
               => IF ret'.rval # OK
                  THEN v'.cap_left = v.cap_left /\ v'.cap_right = v.cap_right
                  ELSE IF i = 0
                  THEN /\ v'.cap_right = v.cap_right
                       /\ v'.cap_left = IF v.begin = 0 \/ v.cap_left = 1
                                        THEN 2 * v.cap_left ELSE v.cap_left
                  ELSE /\ v'.cap_left = v.cap_left
                       /\ v'.begin = v.begin
                       /\ v'.cap_right = IF v.end >= v.cap_right
                                         THEN 2 * v.cap_right ELSE v.cap_right
                       /\ SubSeq(Contents(v', hp'), 1, i) = SubSeq(Contents(v, hp), 1, i)
                       /\ SubSeq(Contents(v', hp'), i + 2, p_vect_size(v'))
                              = SubSeq(Contents(v, hp), i + 1, p_vect_size(v))]_vars

\* Where add-at is the only operation: an add-at at index 0 has doubled the
\* capacity of the left side and an add-at at another index the capacity of
\* the right side of a vector created with 2 + 2 slots.
C40_Witness ==
    /\ Alive
    /\ ret.op = "add_at"
    /\ p_vect_size(v) = MaxSize
    /\ v.cap_left = 4
    /\ v.cap_right = 4

----------------------------------------------------------------------------
\* LockSpec: MaxThreads threads call public operations on one vector. A call
\* is three steps: the thread calls, check_mutex_lock returns (the thread
\* waits while it is admitted and another thread owns the mutex), and the
\* body runs through its inner calls to the wrapper's check_mutex_unlock.
\* vect_lock returns once check_mutex_lock has; vect_unlock is one step.

\* The priority each operation hands to check_mutex_lock.
Priority(op) ==
    CASE op = "swap" -> 1
      [] op = "qsort" -> 1
      [] op = "add_ordered" -> 2
      [] op = "lock" -> 3

LockOps == {"swap", "qsort", "add_ordered", "lock"}

\* A thread between calls: user is true between its vect_lock and its
\* vect_unlock, taken when that vect_lock took the mutex.
Resting ==
    [pc |-> "idle", op |-> "none", val |-> 0, lock_owner |-> 0,
     user |-> FALSE, taken |-> FALSE]

\* vect_create(init_capacity, data_size, ZV_NONE): a by-value vector.
LockInit ==
    /\ \E c \in 1..MaxInitCap : v = vect_create(c, 1, {})
    /\ v2 = NoVector
    /\ hp = EmptyHeap
    /\ ret = [op |-> "create", rval |-> OK, item |-> NULL]
    /\ lock_enabled = TRUE
    /\ lock_type = 0
    /\ mutex = [owner |-> 0, count |-> 0]
    /\ th = [t \in Threads |-> Resting]
    /\ inbody = {}

\* Insertions called and not yet returned.
Inserting == Cardinality({u \in Threads : th[u].pc # "idle" /\ th[u].op = "add_ordered"})

\* Thread t calls op(v, ...): vect_swap(v, 0, 1), vect_qsort(v, f1),
\* vect_add_ordered(v, &val, f1) or vect_lock(v).
LockCalls(t, op, val) ==
    /\ Alive
    /\ th[t].pc = "idle"
    /\ mutex.count < MaxLocks
    /\ op = "swap" => p_vect_size(v) >= 2
    /\ op = "add_ordered" => p_vect_size(v) + Inserting < MaxSize
    /\ op = "lock" => ~th[t].user
    /\ th' = [th EXCEPT ![t] = [@ EXCEPT !.pc = "called", !.op = op, !.val = val]]
    /\ UNCHANGED <<vecvars, lockvars, inbody>>

\* check_mutex_lock(v, Priority(op)) returns in thread t.
LockEnters(t) ==
    /\ Alive
    /\ th[t].pc = "called"
    /\ LockAdmits(lock_enabled, lock_type, Priority(th[t].op)) => MutexFreeFor(mutex, t)
    /\ LET L == check_mutex_lock(LockNow, t, Priority(th[t].op))
       IN  /\ lock_enabled' = L.enabled
           /\ lock_type' = L.type
           /\ mutex' = L.mutex
           /\ IF th[t].op = "lock"
              THEN /\ th' = [th EXCEPT ![t] = [@ EXCEPT !.pc = "idle", !.op = "none", !.val = 0,
                                                        !.lock_owner = L.owner,
                                                        !.user = TRUE, !.taken = (L.owner = 1)]]
                   /\ inbody' = inbody
              ELSE /\ th' = [th EXCEPT ![t] = [@ EXCEPT !.pc = "body", !.lock_owner = L.owner]]
                   /\ inbody' = inbody \cup {t}
    /\ UNCHANGED vecvars

\* What the body of thread t's operation leaves, and whether it called a
\* public operation of priority 1 (vect_swap, vect_add or vect_add_at).
LockBody(t) ==
    CASE th[t].op = "swap" -> [m |-> SwapBody(Machine, 0, 1), calls |-> FALSE]
      [] th[t].op = "qsort" -> QsortBody(Machine)
      [] th[t].op = "add_ordered" ->
             [m |-> AddOrderedBody(WithOrderedArg(Machine, th[t].val),
                                   WithOrderedArg(Machine, th[t].val).item, th[t].val),
              calls |-> TRUE]

\* The body of thread t's operation runs and the wrapper releases what
\* lock_owner says it took. The inner calls take and release the lock at
\* priority 1 when check_mutex_lock admits them.
LockLeaves(t) ==
    /\ Alive
    /\ th[t].pc = "body"
    /\ \E c \in {LockBody(t)} :
           LET a == IF c.calls THEN LockWrapped(LockNow, t, 1) ELSE LockNow
               L == IF th[t].lock_owner = 1
                    THEN check_mutex_unlock(a, t, Priority(th[t].op)) ELSE a
           IN  /\ c.calls /\ LockAdmits(lock_enabled, lock_type, 1) => MutexFreeFor(mutex, t)
               /\ ReturnsState(c.m, v2.ptr, L, th[t].op, NULL)
    /\ th' = [th EXCEPT ![t] = [@ EXCEPT !.pc = "idle", !.op = "none", !.val = 0,
                                         !.lock_owner = 0]]
    /\ inbody' = inbody \ {t}

\* vect_unlock(v) in thread t, which has called vect_lock(v) before.
vect_unlock(t) ==
    /\ Alive
    /\ th[t].pc = "idle"
    /\ th[t].user
    /\ LET L == check_mutex_unlock(LockNow, t, 3)
       IN  /\ lock_enabled' = L.enabled
           /\ lock_type' = L.type
           /\ mutex' = L.mutex
    /\ th' = [th EXCEPT ![t] = [@ EXCEPT !.lock_owner = 0, !.user = FALSE, !.taken = FALSE]]
    /\ UNCHANGED <<vecvars, inbody>>

vect_lock_enable ==
    /\ Alive
    /\ ~lock_enabled
    /\ lock_enabled' = TRUE
    /\ UNCHANGED <<vecvars, lock_type, mutex, thvars>>

vect_lock_disable ==
    /\ Alive
    /\ lock_enabled
    /\ lock_enabled' = FALSE
    /\ UNCHANGED <<vecvars, lock_type, mutex, thvars>>

\* A step of thread t, which calls the operations ops with the values vals.
LockStep(t, ops, vals) ==
    \/ \E op \in ops, val \in vals : LockCalls(t, op, val)
    \/ LockEnters(t)
    \/ LockLeaves(t)
    \/ vect_unlock(t)

LockNext == \E t \in Threads : LockStep(t, LockOps, Values)

\* Locking stays enabled, as it is when the library is loaded.
LockSpec == LockInit /\ [][LockNext]_vars

\* The step LockLeaves(t) as the scheduler sees it: thread t, in a body,
\* goes on to its return.
LockReturns(t) ==
    /\ Alive
    /\ th[t].pc = "body"
    /\ th' = [th EXCEPT ![t] = [@ EXCEPT !.pc = "idle", !.op = "none", !.val = 0,
                                         !.lock_owner = 0]]

\* The scheduler lets every thread run: a wrapper that can go on does, a
\* thread that called vect_lock calls vect_unlock, and a thread that waits for
\* the mutex gets it if it is free again and again (no starvation).
LockFairSpec ==
    /\ LockInit
    /\ [][LockNext]_vars
    /\ \A t \in Threads :
           SF_vars(LockEnters(t)) /\ WF_th(LockReturns(t)) /\ SF_vars(vect_unlock(t))

ToggleNext ==
    \/ \E t \in Threads : LockStep(t, LockOps \ {"qsort"}, {1})
    \/ vect_lock_enable
    \/ vect_lock_disable

\* The threads also enable and disable locking; they insert one value and
\* do not sort.
ToggleSpec == LockInit /\ [][ToggleNext]_vars

----------------------------------------------------------------------------
\* Properties of the lock.

\* C3: with locking enabled, no two threads execute the bodies of public
\* operations on the vector at the same time, and no thread executes one
\* while another thread holds the user lock.
C3_BodiesAreMutuallyExclusive ==
    \A t \in inbody : \A u \in Threads \ {t} :
        u \notin inbody /\ ~(th[u].user /\ th[u].taken)

\* C4: a public operation leaves the mutex held as often, and by the same
\* thread, as it was before the call; so after vect_qsort on a vector of two
\* or more elements, called with the mutex free, the mutex is free. (Stated
\* of the calls that return without a memory fault.)
C4_OperationsReleaseWhatTheyAcquire ==
    [][hp'.fault = {}
           => /\ mutex'.count = mutex.count
              /\ mutex'.owner = mutex.owner]_vars

\* No thread is inside a public operation or between its vect_lock and its
\* vect_unlock.
Quiet == \A t \in Threads : th[t].pc = "idle" /\ ~th[t].user

\* C5: lock_type is 0 whenever no thread is inside a public operation or
\* between its vect_lock and its vect_unlock.
C5_LockTypeZeroWhenQuiet == Quiet => lock_type = 0

\* C6: every operation a thread has started returns, unless the program has
\* been ended by an error; no thread waits for the mutex for ever.
C6_EveryOperationReturns ==
    \A t \in Threads : (th[t].pc # "idle") ~> (th[t].pc = "idle" \/ ~Alive)

\* C7: with locking enabled, a request at priority p on a vector whose
\* lock_type is t takes the mutex, sets lock_type to p and makes the caller
\* the lock owner if p >= t; if p < t it takes nothing, leaves lock_type
\* unchanged and the caller is not the lock owner.
C7_AcquireIffPriorityHighEnough ==
    [][\A t \in Threads :
           LockEnters(t) /\ lock_enabled
               => IF Priority(th[t].op) >= lock_type
                  THEN /\ mutex'.owner = t
                       /\ mutex'.count = mutex.count + 1
                       /\ lock_type' = Priority(th[t].op)
                       /\ th'[t].lock_owner = 1
                  ELSE /\ mutex' = mutex
                       /\ lock_type' = lock_type
                       /\ th'[t].lock_owner = 0]_vars

\* With locking enabled one thread holds the user lock, which it was given,
\* and another runs the body of an operation it was refused the lock for.
C7_Witness ==
    \E t \in Threads, u \in Threads :
        /\ lock_enabled
        /\ lock_type = 3
        /\ th[u].user /\ th[u].taken /\ th[u].pc = "idle"
        /\ mutex.owner = u
        /\ th[t].pc = "body" /\ th[t].lock_owner = 0
        /\ th[t].op = "add_ordered"

\* C8: vect_unlock changes lock_type or the mutex only when its thread is
\* the one that acquired the lock and lock_type is 3; from any other thread,
\* or at another lock_type, it leaves both unchanged.
C8_ReleaseOnlyByTheAcquirer ==
    [][\A t \in Threads :
           vect_unlock(t) /\ ~(th[t].taken /\ mutex.owner = t /\ lock_type = 3)
               => lock_type' = lock_type /\ mutex' = mutex]_vars

\* C9: once a thread has taken the user lock, the operations of priority 1
\* and 2 it runs neither take nor release the mutex and leave lock_type 3,
\* and after its vect_unlock lock_type is 0 and the mutex is free.
C9_UserLockCoversInnerOperations ==
    [][\A t \in Threads :
           th[t].user /\ th[t].taken
               => /\ LockEnters(t) \/ LockLeaves(t) => mutex' = mutex /\ lock_type' = 3
                  /\ vect_unlock(t) => lock_type' = 0 /\ mutex'.owner = 0]_vars

====
